---- MODULE Spec2Model ----
(***************************************************************************)
(* Model of the uTRON edge-AI OCR firmware: the fixed-pool allocator of    *)
(* src/src/ai/ai_memory.c and the inference task of src/src/tasks/         *)
(* ai_task.c.                                                              *)
(*                                                                         *)
(* The specifications share the variables:                                *)
(*   SpecMem     - the allocator driven by an arbitrary caller            *)
(*                 (ai_memory_init / alloc / free / check_leaks);         *)
(*   SpecMemWide - the same caller asking for sizes close to 2^32;        *)
(*   SpecMemAge  - the same caller with the millisecond tick advancing;   *)
(*   SpecFrame   - ocr_process_frame on a pool in which blocks are held;   *)
(*   SpecSelfTest - ai_self_test on such a pool;                          *)
(*   SpecTasks   - two tasks of different priority calling the allocator; *)
(*   Spec        - create_ai_task, ai_task_entry and what they call;      *)
(*   SpecMemDeep - the allocator with a caller that holds one block more; *)
(*   SpecValidate - the validation pass of ai_init;                       *)
(*   SpecRecovery - ai_recovery_attempt on a pool in which blocks are     *)
(*                 held;                                                  *)
(*   SpecLog     - the error log of the monitor;                          *)
(*   SpecImage   - ocr_preprocess_image on the pixels of a captured       *)
(*                 frame;                                                 *)
(*   SpecResult  - Spec with a consumer that asks for the latest result;  *)
(*   SpecText    - the recognition loop joining the texts of regions.     *)
(***************************************************************************)
EXTENDS Integers, Sequences, FiniteSets, TLC

(***************************************************************************)
(* Program constants                                                       *)
(***************************************************************************)
\* uint32_t arithmetic wraps at the word size.  TLC's integers are 32-bit
\* signed, so the machine word is modelled 24 bits wide: every uint32_t
\* (sizes, counters, ticks, addresses) is taken modulo 2^24, and the two
\* constants that need more than 24 bits keep their low 24 bits
\* (MEMORY_MAGIC 0xABCDEF01 -> 0xCDEF01) or their top digits (the PSRAM base
\* 0x90000000 -> 0x900000).  As on the target, the magic tag is not an
\* address inside the pool and the pool does not reach the top of the
\* address space.
U32 == 2 ^ 24
MEMORY_MAGIC == 13496065          \* 0xCDEF01
MEMORY_ALIGN == 8
AI_MEMORY_POOL_SIZE == 2621440    \* NPU_MAX_MEMORY_BYTES
HeaderSize == 16                  \* sizeof(memory_block_t), 32-bit target
PoolBase == 9437184               \* 0x900000: address of ai_memory_pool_buffer
LEAK_AGE_MS == 30000
NULL == 0

OCR_INPUT_WIDTH == 320
OCR_INPUT_HEIGHT == 240
AI_MODEL_COUNT == 3               \* detection, recognition, preprocessing
AI_TASK_PERIOD_MS == 20
RECOVERY_DELAY_MS == 100          \* power-cycle pause of ai_recovery_attempt
RECOVERY_ERROR_LIMIT == 5         \* consecutive_errors > 5 starts a recovery
VALIDATION_ITERATIONS == 10
DETECTION_OUTPUT_BYTES == 1024
SELF_TEST_BYTES == 1024
REGION_ACCEPT_CONFIDENCE == 50    \* 0.5f, confidences are in hundredths
DEFAULT_CONFIDENCE_THRESHOLD == 95   \* 0.95f
DEFAULT_MAX_INFERENCE_TIME_US == 8000

CAMERA_WIDTH == 640                \* camera_task.h
CAMERA_HEIGHT == 480
ERROR_LOG_SIZE == 32               \* system_task.h
TASK_ID_AI_TASK == 2

TASK_PRIORITY_CAMERA == 2          \* utron_config.h; 1 is the highest priority
TASK_PRIORITY_AI == 3
TASK_PRIORITY_OUTPUT == 4
TASK_PRIORITY_SYSTEM == 5
AI_TASK_PRIORITY == 2              \* ai_task.h
AUDIO_TASK_PRIORITY == 3           \* audio_task.h
SYSTEM_TASK_PRIORITY == 5          \* system_task.h

AI_ERROR_NONE == 0
AI_ERROR_INIT_FAILED == -1
AI_ERROR_MODEL_LOAD_FAILED == -2
AI_ERROR_INFERENCE_TIMEOUT == -3
AI_ERROR_MEMORY_ALLOC_FAILED == -4
AI_ERROR_INPUT_INVALID == -5
AI_ERROR_NPU_ERROR == -6
AI_ERROR_RECOVERY_FAILED == -8

(***************************************************************************)
(* Bounds of the model                                                     *)
(***************************************************************************)
MaxAllocs == 3        \* pointers ai_memory_alloc hands to the caller (SpecMem);
                      \* value of allocation_count up to which a task starts
                      \* an allocation (SpecTasks)
MaxOther == 1         \* calls of ai_memory_init and ai_memory_check_leaks, and
                      \* frees of a pointer that is not live (SpecMem); calls
                      \* of ocr_process_frame (SpecFrame) and of ai_self_test
                      \* (SpecSelfTest)
MaxTicks == 1         \* advances of the millisecond tick (SpecMemAge)
MaxBoxes == 1         \* text regions the detector reports for one frame
MaxFrames == 7        \* frames the inference task processes
MaxIdle == 1          \* loop iterations that find no frame
MaxLogged == 34       \* calls of system_log_error (SpecLog)
MaxGood == 2          \* frames the inference task processes without error

VARIABLES
    ai_pool,            \* ai_pool statistics (ai_memory_pool_t)
    allocated_blocks,   \* head of the allocated-block list (address or NULL)
    memory_mutex,       \* spin flag
    pool_mem,           \* ai_memory_pool_buffer: byte offset of a word -> word
    trap,               \* "none", or how the caller got stuck: "hang" / "wild"
    now,                \* hal_get_tick()
    handles,            \* history: pointers returned to the caller
    last_op,            \* history: the last allocator call and its result
    calls,              \* history: number of calls of each kind
    pc,                 \* where the inference task stands
    ai_context,         \* ai_task_context_t (the fields the task logic uses)
    cycle,              \* history: what the last processed frame did
    run,                \* history: the current run of failing cycles
    callers,            \* tasks that call the allocator: position and locals
    system_context,     \* the monitor's error log (system_context_t)
    image,              \* the pixels ocr_preprocess_image reads and writes
    combined_text       \* the text buffer of ocr_process_frame and what was done to it

memVars == <<ai_pool, allocated_blocks, memory_mutex, pool_mem, trap>>
histVars == <<handles, last_op, calls>>
taskVars == <<pc, ai_context, cycle, run, callers, system_context, image, combined_text>>

(***************************************************************************)
(* Memory: the pool is a static array, zero until written.  Only the words *)
(* that were written are kept.                                             *)
(***************************************************************************)
Rd(buf, off) == IF off \in DOMAIN buf THEN buf[off] ELSE 0

Wr(buf, off, v) == (off :> v) @@ buf

\* memory_block_t field offsets
F_MAGIC == 0
F_SIZE == 4
F_TIMESTAMP == 8
F_NEXT == 12

\* a header at this address lies inside the pool buffer
InPool(addr) ==
    /\ addr >= PoolBase
    /\ addr + HeaderSize <= PoolBase + AI_MEMORY_POOL_SIZE
    /\ (addr - PoolBase) % 4 = 0

Field(buf, addr, f) == Rd(buf, (addr - PoolBase) + f)

\* size = (size + MEMORY_ALIGN - 1) & ~(MEMORY_ALIGN - 1), in uint32_t
Align8(size) == (((size + MEMORY_ALIGN - 1) % U32) \div MEMORY_ALIGN) * MEMORY_ALIGN

\* the same rounding without the 32-bit wrap
MathAlign8(size) == ((size + MEMORY_ALIGN - 1) \div MEMORY_ALIGN) * MEMORY_ALIGN

\* a local of the C code: v is computed once, and F is the code that follows
\* with the local holding that value
Bind(v, F(_)) == CHOOSE r \in {F(x) : x \in {v}} : TRUE

\* the allocator state as one value, so that a caller can chain calls
Heap == [ai_pool |-> ai_pool, allocated_blocks |-> allocated_blocks,
         memory_mutex |-> memory_mutex, pool_mem |-> pool_mem, trap |-> trap]

SetHeap(H) ==
    /\ ai_pool' = H.ai_pool
    /\ allocated_blocks' = H.allocated_blocks
    /\ memory_mutex' = H.memory_mutex
    /\ pool_mem' = H.pool_mem
    /\ trap' = H.trap

ZeroPool == [pool_size |-> 0, allocated_size |-> 0, peak_usage |-> 0,
             allocation_count |-> 0, free_count |-> 0, leak_count |-> 0]

\* the statics of ai_memory.c before any call: all zero
BootHeap == [ai_pool |-> ZeroPool, allocated_blocks |-> NULL, memory_mutex |-> 0,
             pool_mem |-> <<>>, trap |-> "none"]

(***************************************************************************)
(* ai_memory.c: allocator operations, as functions of the allocator state  *)
(***************************************************************************)

\* ai_memory_init(): statistics, list head and lock are reset; the buffer
\* itself is not cleared
ai_memory_init(H) ==
    [H EXCEPT !.ai_pool = [pool_size |-> AI_MEMORY_POOL_SIZE, allocated_size |-> 0,
                           peak_usage |-> 0, allocation_count |-> 0,
                           free_count |-> 0, leak_count |-> 0],
              !.allocated_blocks = NULL,
              !.memory_mutex = 0]

\* the capacity test of ai_memory_alloc, line 86
NoRoom(allocated_size, total_size, pool_size) ==
    (allocated_size + total_size) % U32 > pool_size

\* where ai_memory_alloc places the next block, line 94
CarveOffset(pool) == pool.allocated_size

\* ai_memory_alloc(size) at tick t: the new allocator state and the pointer
\* returned.  A caller that finds the lock taken spins for ever ("hang"); a
\* header written past the end of the buffer is an out-of-bounds write
\* ("wild").
ai_memory_alloc(H, size, t) ==
    LET asz   == Align8(size)
        total == (HeaderSize + asz) % U32
        off   == CarveOffset(H.ai_pool)
        block == PoolBase + off
        used  == (H.ai_pool.allocated_size + total) % U32
        hdr   == (off + F_MAGIC :> MEMORY_MAGIC) @@ (off + F_SIZE :> asz) @@
                 (off + F_TIMESTAMP :> t) @@ (off + F_NEXT :> H.allocated_blocks)
    IN  IF size = 0 THEN [H |-> H, ret |-> NULL]
        ELSE IF H.memory_mutex # 0 THEN [H |-> [H EXCEPT !.trap = "hang"], ret |-> NULL]
        ELSE IF NoRoom(H.ai_pool.allocated_size, total, H.ai_pool.pool_size)
             THEN [H |-> [H EXCEPT !.memory_mutex = 0], ret |-> NULL]
        ELSE IF ~InPool(block)
             THEN [H |-> [H EXCEPT !.memory_mutex = 1, !.trap = "wild"], ret |-> NULL]
        ELSE [H |-> [H EXCEPT
                  !.pool_mem = hdr @@ H.pool_mem,
                  !.allocated_blocks = block,
                  !.ai_pool.allocated_size = used,
                  !.ai_pool.allocation_count = (@ + 1) % U32,
                  !.ai_pool.peak_usage = IF used > @ THEN used ELSE @,
                  !.memory_mutex = 0],
              ret |-> block + HeaderSize]

\* the list walk of ai_memory_free, lines 145-148: the block whose next
\* field points at `block`, NULL when the walk reaches the end of the list;
\* a walk that comes back to a block it has already passed never ends.
RECURSIVE FindPrev(_, _, _, _)
FindPrev(buf, current, block, seen) ==
    IF current = NULL THEN [kind |-> "null", at |-> NULL]
    ELSE IF ~InPool(current) THEN [kind |-> "wild", at |-> current]
    ELSE IF Field(buf, current, F_NEXT) = block THEN [kind |-> "found", at |-> current]
    ELSE IF current \in seen THEN [kind |-> "hang", at |-> current]
    ELSE FindPrev(buf, Field(buf, current, F_NEXT), block, seen \cup {current})

\* the statistics update and tag clearing of ai_memory_free, lines 159-167
FreeAccount(H, buf, block) ==
    LET total == (HeaderSize + Field(buf, block, F_SIZE)) % U32
    IN  [H EXCEPT
            !.pool_mem = Wr(buf, (block - PoolBase) + F_MAGIC, 0),
            !.ai_pool.allocated_size = (@ - total) % U32,
            !.ai_pool.free_count = (@ + 1) % U32,
            !.memory_mutex = 0]

\* the early return of ai_memory_free on a bad tag or a block not in the list
FreeReject(H) ==
    [H EXCEPT !.ai_pool.leak_count = (@ + 1) % U32, !.memory_mutex = 0]

\* ai_memory_free(ptr)
ai_memory_free(H, ptr) ==
    LET block == ptr - HeaderSize
        prev  == FindPrev(H.pool_mem, H.allocated_blocks, block, {})
    IN  IF ptr = NULL THEN H
        ELSE IF H.memory_mutex # 0 THEN [H EXCEPT !.trap = "hang"]
        ELSE IF ~InPool(block) THEN [H EXCEPT !.memory_mutex = 1, !.trap = "wild"]
        ELSE IF Field(H.pool_mem, block, F_MAGIC) # MEMORY_MAGIC THEN FreeReject(H)
        ELSE IF H.allocated_blocks = block
             THEN FreeAccount([H EXCEPT !.allocated_blocks = Field(H.pool_mem, block, F_NEXT)],
                              H.pool_mem, block)
        ELSE IF prev.kind = "found"
             THEN FreeAccount(H, Wr(H.pool_mem, (prev.at - PoolBase) + F_NEXT,
                                    Field(H.pool_mem, block, F_NEXT)), block)
        ELSE IF prev.kind = "null" THEN FreeReject(H)
        ELSE [H EXCEPT !.memory_mutex = 1, !.trap = prev.kind]

\* the age test of ai_memory_check_leaks, line 194
IsStale(t, timestamp) == (t - timestamp) % U32 > LEAK_AGE_MS

\* the walk of ai_memory_check_leaks: the number of stale blocks, or -1 when
\* the walk never ends, or -2 when it leaves the buffer
RECURSIVE CountLeaks(_, _, _, _)
CountLeaks(buf, current, t, seen) ==
    IF current = NULL THEN 0
    ELSE IF ~InPool(current) THEN -2
    ELSE IF current \in seen THEN -1
    ELSE LET rest == CountLeaks(buf, Field(buf, current, F_NEXT), t, seen \cup {current})
         IN  IF rest < 0 THEN rest
             ELSE rest + (IF IsStale(t, Field(buf, current, F_TIMESTAMP)) THEN 1 ELSE 0)

\* a check that takes the blocks it counts off the list
ai_memory_check_leaks_Reclaim(H, t) ==
    LET n == CountLeaks(H.pool_mem, H.allocated_blocks, t, {})
    IN  IF n = -1 THEN [H |-> [H EXCEPT !.trap = "hang"], ret |-> 0]
        ELSE IF n = -2 THEN [H |-> [H EXCEPT !.trap = "wild"], ret |-> 0]
        ELSE [H |-> [H EXCEPT !.ai_pool.leak_count = (@ + n) % U32,
                              !.ai_pool.free_count = (@ + n) % U32,
                              !.allocated_blocks = IF n > 0 THEN NULL ELSE @],
              ret |-> n]

\* ai_memory_check_leaks() at tick t: the new state and the count returned
ai_memory_check_leaks(H, t) ==
    LET n == CountLeaks(H.pool_mem, H.allocated_blocks, t, {})
    IN  IF n = -1 THEN [H |-> [H EXCEPT !.trap = "hang"], ret |-> 0]
        ELSE IF n = -2 THEN [H |-> [H EXCEPT !.trap = "wild"], ret |-> 0]
        ELSE [H |-> [H EXCEPT !.ai_pool.leak_count = (@ + n) % U32], ret |-> n]

\* ai_memory_get_stats(): used, free and peak bytes
ai_memory_get_stats(H) ==
    [used_bytes |-> H.ai_pool.allocated_size,
     free_bytes |-> (H.ai_pool.pool_size - H.ai_pool.allocated_size) % U32,
     peak_usage |-> H.ai_pool.peak_usage]

\* number of blocks reachable from the list head; -1 when the list is cyclic
\* or leaves the buffer
RECURSIVE ListLen(_, _, _)
ListLen(buf, current, seen) ==
    IF current = NULL THEN 0
    ELSE IF ~InPool(current) \/ current \in seen THEN -1
    ELSE LET rest == ListLen(buf, Field(buf, current, F_NEXT), seen \cup {current})
         IN  IF rest < 0 THEN -1 ELSE rest + 1

\* the blocks reachable from the list head, in list order; the walk stops
\* with NULL at a block it has passed before or outside the buffer
RECURSIVE ListOf(_, _, _)
ListOf(buf, current, seen) ==
    IF current = NULL THEN <<>>
    ELSE IF ~InPool(current) \/ current \in seen THEN <<NULL>>
    ELSE <<current>> \o ListOf(buf, Field(buf, current, F_NEXT), seen \cup {current})

(***************************************************************************)
(* ai_task.c: the inference pipeline as functions of state and inputs      *)
(*                                                                         *)
(* Confidences are in hundredths (0.95f is 95).  A result's confidence is  *)
(* the quotient total_confidence / recognized_regions; it is kept as the   *)
(* pair [num, den] and compared by cross-multiplication.  Timing averages, *)
(* the confidence average and the text itself are not part of the state.   *)
(***************************************************************************)

ModelIds == 0..(AI_MODEL_COUNT - 1)
AI_MODEL_TEXT_DETECTION == 0
AI_MODEL_TEXT_RECOGNITION == 1
AI_MODEL_PREPROCESSING == 2

ZeroStats == [total_inferences |-> 0, successful_inferences |-> 0,
              failed_inferences |-> 0, low_confidence_count |-> 0]

\* ai_context as the zero-initialised global; AI_STATE_IDLE is 0
ZeroContext ==
    [current_state |-> "IDLE",
     config |-> [confidence_threshold |-> 0, max_inference_time_us |-> 0],
     npu_handle |-> FALSE,
     loaded |-> [m \in ModelIds |-> FALSE],
     stats |-> ZeroStats,
     error_code |-> AI_ERROR_NONE,
     consecutive_errors |-> 0,
     recovery_needed |-> 0,
     result_buffer |-> NULL]

\* what the accelerator and the decoders can give back for one frame.  The
\* source's detector and recogniser are placeholders that always report one
\* box and confidence 0.92; the decoded values are inputs here, the
\* placeholder values among them.
RegionConfidences == {50, 92, 95}
NpuFail == -1
RegionOutcomes == {NpuFail} \cup RegionConfidences

FrameInputs ==
    {[det |-> NpuFail, regs |-> <<>>]} \cup
    UNION {{[det |-> k, regs |-> r] : r \in [1..k -> RegionOutcomes]} : k \in 0..MaxBoxes}

\* measured duration of a cycle in microseconds (hal_get_time_us difference)
InferenceTimes == {8000, 9000}

\* measured duration of one iteration of the validation pass
ValidationTimes == InferenceTimes \cup {DEFAULT_MAX_INFERENCE_TIME_US + 1}

\* outcomes of bringing up the accelerator: neural_art_init fails, it
\* succeeds but no handle is returned, or it succeeds with a handle
NpuOutcomes == {"init_fail", "no_handle", "ok"}

ZeroConf == [num |-> 0, den |-> 1]

\* c >= threshold, for a quotient c
ConfGE(c, threshold) == c.num >= threshold * c.den

\* a detector that keeps its buffer when the accelerator fails
ocr_detect_text_NoFree(H, det, t) ==
    Bind(ai_memory_alloc(H, DETECTION_OUTPUT_BYTES, t), LAMBDA a :
        IF a.ret = NULL THEN [H |-> a.H, rc |-> AI_ERROR_MEMORY_ALLOC_FAILED]
        ELSE IF det = NpuFail THEN [H |-> a.H, rc |-> AI_ERROR_NPU_ERROR]
        ELSE [H |-> ai_memory_free(a.H, a.ret), rc |-> det])

\* ocr_detect_text(): the scratch buffer is taken and released around the
\* accelerator call; the box count, or a negative error
ocr_detect_text(H, det, t) ==
    Bind(ai_memory_alloc(H, DETECTION_OUTPUT_BYTES, t), LAMBDA a :
        IF a.ret = NULL THEN [H |-> a.H, rc |-> AI_ERROR_MEMORY_ALLOC_FAILED]
        ELSE IF det = NpuFail
             THEN [H |-> ai_memory_free(a.H, a.ret), rc |-> AI_ERROR_NPU_ERROR]
        ELSE [H |-> ai_memory_free(a.H, a.ret), rc |-> det])

\* the box the detector reports: a quarter-offset, half-width region
BoxBytes == (OCR_INPUT_WIDTH \div 2) * (OCR_INPUT_HEIGHT \div 4) * 2

\* ocr_recognize_text() for one box: error code and confidence
ocr_recognize_text(H, outcome, t) ==
    Bind(ai_memory_alloc(H, BoxBytes, t), LAMBDA a :
        IF a.ret = NULL
             THEN [H |-> a.H, rc |-> AI_ERROR_MEMORY_ALLOC_FAILED, confidence |-> 0]
        ELSE IF outcome = NpuFail
             THEN [H |-> ai_memory_free(a.H, a.ret), rc |-> AI_ERROR_NPU_ERROR, confidence |-> 0]
        ELSE [H |-> ai_memory_free(a.H, a.ret), rc |-> 0, confidence |-> outcome])

\* an acceptance test that lets a confidence of exactly 0.5 pass
RegionAccepted_AtHalf(rc, confidence) == rc = 0 /\ confidence >= REGION_ACCEPT_CONFIDENCE

\* the acceptance test of a recognised region, line 387
RegionAccepted(rc, confidence) == rc = 0 /\ confidence > REGION_ACCEPT_CONFIDENCE

\* the recognition loop of ocr_process_frame, lines 381-397
RECURSIVE RecognizeAll(_, _, _, _, _)
RecognizeAll(H, regs, i, acc, t) ==
    IF i > Len(regs) THEN [H |-> H, total_confidence |-> acc.num, recognized_regions |-> acc.den]
    ELSE Bind(ocr_recognize_text(H, regs[i], t), LAMBDA r :
         Bind(IF RegionAccepted(r.rc, r.confidence)
              THEN [num |-> acc.num + r.confidence, den |-> acc.den + 1]
              ELSE acc, LAMBDA acc1 :
             RecognizeAll(r.H, regs, i + 1, acc1, t)))

\* statistics that count a frame without accepted regions as a success
CountInference_AlwaysGood(stats, recognized_regions) ==
    [stats EXCEPT
        !.total_inferences = (@ + 1) % U32,
        !.successful_inferences = (@ + 1) % U32]

\* the statistics update of ocr_process_frame, lines 420-425
CountInference(stats, recognized_regions) ==
    [stats EXCEPT
        !.total_inferences = (@ + 1) % U32,
        !.successful_inferences = IF recognized_regions > 0 THEN (@ + 1) % U32 ELSE @,
        !.failed_inferences = IF recognized_regions > 0 THEN @ ELSE (@ + 1) % U32]

NoResult == [confidence |-> ZeroConf, bbox_count |-> 0, regions |-> 0, timestamp |-> 0]

\* ocr_process_frame(frame, &result): return code, result, and the
\* allocator and statistics afterwards
ocr_process_frame(H, stats, frame_ok, fin, t) ==
    IF ~frame_ok
    THEN [rc |-> AI_ERROR_INPUT_INVALID, H |-> H, stats |-> stats, result |-> NoResult]
    ELSE
    Bind(ai_memory_alloc(H, OCR_INPUT_WIDTH * OCR_INPUT_HEIGHT * 2, t), LAMBDA a :
    IF a.ret = NULL
    THEN [rc |-> AI_ERROR_MEMORY_ALLOC_FAILED, H |-> a.H, stats |-> stats,
          result |-> [NoResult EXCEPT !.timestamp = t]]
    ELSE
    Bind(ocr_detect_text(a.H, fin.det, t), LAMBDA d :
    IF d.rc < 0
    THEN [rc |-> d.rc, H |-> ai_memory_free(d.H, a.ret), stats |-> stats,
          result |-> [NoResult EXCEPT !.timestamp = t]]
    ELSE
    Bind(RecognizeAll(d.H, fin.regs, 1, [num |-> 0, den |-> 0], t), LAMBDA rec :
    LET n == rec.recognized_regions
    IN  [rc |-> 0,
         H |-> ai_memory_free(rec.H, a.ret),
         stats |-> CountInference(stats, n),
         result |-> [confidence |-> IF n > 0
                                    THEN [num |-> rec.total_confidence, den |-> n]
                                    ELSE ZeroConf,
                     bbox_count |-> d.rc, regions |-> n, timestamp |-> t]])))

\* ai_stats_update_quality(): the low-confidence count (the averages are
\* not modelled)
ai_stats_update_quality(ctx, confidence) ==
    IF ~ConfGE(confidence, ctx.config.confidence_threshold)
    THEN [ctx EXCEPT !.stats.low_confidence_count = (@ + 1) % U32]
    ELSE ctx

\* ai_stats_reset()
ai_stats_reset(ctx) == [ctx EXCEPT !.stats = ZeroStats]

\* ai_neural_art_init_npu(): bring-up of the accelerator and its handle
ai_neural_art_init_npu(ctx, npu) ==
    IF npu = "init_fail" THEN [ctx |-> ctx, rc |-> AI_ERROR_NPU_ERROR]
    ELSE IF npu = "no_handle"
         THEN [ctx |-> [ctx EXCEPT !.npu_handle = FALSE], rc |-> AI_ERROR_NPU_ERROR]
    ELSE [ctx |-> [ctx EXCEPT !.npu_handle = TRUE], rc |-> 0]

\* neural_art_is_model_ready()
neural_art_is_model_ready(ctx, m) == ctx.loaded[m]

\* ai_load_ocr_models(): the detection and recognition models are loaded,
\* then every one of the AI_MODEL_COUNT slots must be ready
ai_load_ocr_models(ctx, det_ok, rec_ok) ==
    LET c1 == [ctx EXCEPT !.loaded[AI_MODEL_TEXT_DETECTION] = TRUE]
        c2 == [c1 EXCEPT !.loaded[AI_MODEL_TEXT_RECOGNITION] = TRUE]
    IN  IF ~det_ok THEN [ctx |-> ctx, rc |-> AI_ERROR_MODEL_LOAD_FAILED]
        ELSE IF ~rec_ok THEN [ctx |-> c1, rc |-> AI_ERROR_MODEL_LOAD_FAILED]
        ELSE IF \E m \in ModelIds : ~neural_art_is_model_ready(c2, m)
             THEN [ctx |-> c2, rc |-> AI_ERROR_MODEL_LOAD_FAILED]
        ELSE [ctx |-> c2, rc |-> 0]

\* a self-test that looks at the models before the handle
ai_self_test_ModelsFirst(H, ctx, t) ==
    IF \E m \in ModelIds : ~ctx.loaded[m] THEN [H |-> H, rc |-> -2]
    ELSE IF ~ctx.npu_handle THEN [H |-> H, rc |-> -1]
    ELSE Bind(ai_memory_alloc(H, SELF_TEST_BYTES, t), LAMBDA a :
             IF a.ret = NULL THEN [H |-> a.H, rc |-> -3]
             ELSE [H |-> ai_memory_free(a.H, a.ret), rc |-> 0])

\* ai_self_test(): handle, models, scratch round-trip
ai_self_test(H, ctx, t) ==
    IF ~ctx.npu_handle THEN [H |-> H, rc |-> -1]
    ELSE IF \E m \in ModelIds : ~ctx.loaded[m] THEN [H |-> H, rc |-> -2]
    ELSE Bind(ai_memory_alloc(H, SELF_TEST_BYTES, t), LAMBDA a :
             IF a.ret = NULL THEN [H |-> a.H, rc |-> -3]
             ELSE [H |-> ai_memory_free(a.H, a.ret), rc |-> 0])

\* the steps of ai_recovery_attempt, in the order of lines 400-424
RecoverySteps == <<"power_cycle", "ai_neural_art_init_npu", "ai_load_ocr_models",
                   "reset_counters", "ai_self_test">>

\* a recovery that runs the self-test before it resets the error counters
ai_recovery_attempt_TestFirst(H, ctx, rin, t) ==
    Bind(ai_neural_art_init_npu([ctx EXCEPT !.recovery_needed = 1], rin.npu), LAMBDA npu :
    IF npu.rc # 0 THEN [H |-> H, ctx |-> npu.ctx, rc |-> AI_ERROR_RECOVERY_FAILED,
                        steps |-> <<0, npu.rc>>]
    ELSE
    Bind(ai_load_ocr_models(npu.ctx, rin.det_ok, rin.rec_ok), LAMBDA ld :
    IF ld.rc # 0 THEN [H |-> H, ctx |-> ld.ctx, rc |-> AI_ERROR_RECOVERY_FAILED,
                       steps |-> <<0, 0, ld.rc>>]
    ELSE
    Bind(ai_self_test(H, ld.ctx, t), LAMBDA st :
    IF st.rc # 0 THEN [H |-> st.H, ctx |-> ld.ctx, rc |-> AI_ERROR_RECOVERY_FAILED,
                       steps |-> <<0, 0, 0, 0, st.rc>>]
    ELSE [H |-> st.H,
          ctx |-> [ld.ctx EXCEPT !.consecutive_errors = 0,
                                 !.error_code = AI_ERROR_NONE,
                                 !.recovery_needed = 0],
          rc |-> 0, steps |-> <<0, 0, 0, 0, 0>>])))

\* ai_recovery_attempt(); steps holds the results of the steps that ran, in
\* the order they ran (the power cycle and the counter reset cannot fail)
ai_recovery_attempt(H, ctx, rin, t) ==
    Bind(ai_neural_art_init_npu([ctx EXCEPT !.recovery_needed = 1], rin.npu), LAMBDA npu :
    IF npu.rc # 0 THEN [H |-> H, ctx |-> npu.ctx, rc |-> AI_ERROR_RECOVERY_FAILED,
                        steps |-> <<0, npu.rc>>]
    ELSE
    Bind(ai_load_ocr_models(npu.ctx, rin.det_ok, rin.rec_ok), LAMBDA ld :
    IF ld.rc # 0 THEN [H |-> H, ctx |-> ld.ctx, rc |-> AI_ERROR_RECOVERY_FAILED,
                       steps |-> <<0, 0, ld.rc>>]
    ELSE
    Bind([ld.ctx EXCEPT !.consecutive_errors = 0,
                        !.error_code = AI_ERROR_NONE,
                        !.recovery_needed = 0], LAMBDA c4 :
    Bind(ai_self_test(H, c4, t), LAMBDA st :
    IF st.rc # 0 THEN [H |-> st.H, ctx |-> c4, rc |-> AI_ERROR_RECOVERY_FAILED,
                       steps |-> <<0, 0, 0, 0, st.rc>>]
    ELSE [H |-> st.H, ctx |-> c4, rc |-> 0, steps |-> <<0, 0, 0, 0, 0>>]))))

RecoveryInputs == [npu : NpuOutcomes, det_ok : BOOLEAN, rec_ok : BOOLEAN]

\* a recovery test that fires one error early
RecoveryDue_AtLimit(consecutive_errors) == consecutive_errors >= RECOVERY_ERROR_LIMIT

\* the test of ai_handle_inference_error that starts a recovery, line 606
RecoveryDue(consecutive_errors) == consecutive_errors > RECOVERY_ERROR_LIMIT

\* ai_handle_inference_error(error_code): the error is recorded, logged, and
\* a recovery attempted when too many have accumulated
ai_handle_inference_error(H, ctx, error_code, rin, t) ==
    Bind([ctx EXCEPT !.error_code = error_code,
                     !.consecutive_errors = (@ + 1) % U32], LAMBDA c1 :
    LET entry == [severity |-> "ERROR", code |-> error_code,
                  context |-> c1.consecutive_errors]
    IN  IF RecoveryDue(c1.consecutive_errors)
        THEN Bind(ai_recovery_attempt(H, c1, rin, (t + RECOVERY_DELAY_MS) % U32), LAMBDA r :
                 [H |-> r.H, ctx |-> r.ctx, logged |-> <<entry>>, recov |-> 1, rc |-> r.rc])
        ELSE [H |-> H, ctx |-> c1, logged |-> <<entry>>, recov |-> 0, rc |-> 0])

\* the accelerator and loader behaviours that matter to the next error: all
\* of them when that error starts a recovery, otherwise a single one
RecoveryChoices(ctx) ==
    IF RecoveryDue((ctx.consecutive_errors + 1) % U32) THEN RecoveryInputs
    ELSE {[npu |-> "ok", det_ok |-> TRUE, rec_ok |-> TRUE]}

\* a gate that holds back a result exactly at the threshold
GatePass_Strict(confidence, threshold) == confidence.num > threshold * confidence.den

\* the quality gate of ai_task_entry, line 115
GatePass(confidence, threshold) == ConfGE(confidence, threshold)

\* what the accelerator does during the validation pass.  Every iteration
\* processes the same synthetic frame, so the decoded boxes are the same in
\* every iteration that runs (fin); the accelerator may fail in one of them
\* (fail_at, 0 for none).
ValidationPlans ==
    [fin : {f \in FrameInputs : f.det # NpuFail}, fail_at : 0..VALIDATION_ITERATIONS]

\* the validation loop of ai_validate_model_performance, lines 302-318, from
\* iteration i on: an iteration that fails ends the loop with
\* AI_ERROR_INIT_FAILED
RECURSIVE ValLoop(_, _, _, _)
ValLoop(x, i, plan, t) ==
    IF i > VALIDATION_ITERATIONS THEN x
    ELSE Bind(ocr_process_frame(x.H, x.stats, TRUE,
                  IF i = plan.fail_at THEN [det |-> NpuFail, regs |-> <<>>]
                  ELSE plan.fin, t), LAMBDA r :
             IF r.rc # 0
             THEN [H |-> r.H, stats |-> r.stats, rc |-> AI_ERROR_INIT_FAILED]
             ELSE ValLoop([H |-> r.H, stats |-> r.stats, rc |-> 0], i + 1, plan, t))

\* total_time after i iterations: the measured times do not depend on what
\* the frames did, so their sums are collected on their own
RECURSIVE TimeSums(_)
TimeSums(i) ==
    IF i = 0 THEN {0}
    ELSE {(total + tm) % U32 : total \in TimeSums(i - 1), tm \in ValidationTimes}

\* a verdict that also rejects an average equal to the budget
TooSlow_AtBudget(total_time, budget) == total_time \div VALIDATION_ITERATIONS >= budget

\* the verdict of ai_validate_model_performance on the average, line 325
TooSlow(total_time, budget) == total_time \div VALIDATION_ITERATIONS > budget

\* ai_validate_model_performance(): possible outcomes
ai_validate_model_performance(H, ctx, t) ==
    Bind({ValLoop([H |-> H, stats |-> ctx.stats, rc |-> 0], 1, plan, t)
             : plan \in ValidationPlans}, LAMBDA chains :
    Bind({TooSlow(total, ctx.config.max_inference_time_us)
             : total \in TimeSums(VALIDATION_ITERATIONS)}, LAMBDA slow :
        { [H |-> x.H, ctx |-> [ctx EXCEPT !.stats = x.stats], rc |-> x.rc]
          : x \in {y \in chains : y.rc # 0} }
        \cup
        { [H |-> x.H, ctx |-> [ctx EXCEPT !.stats = x.stats],
           rc |-> IF sl THEN AI_ERROR_INFERENCE_TIMEOUT ELSE 0]
          : x \in {y \in chains : y.rc = 0}, sl \in slow }))

\* what ai_validate_model_performance returns after its loop ended as x,
\* with total_time as measured, lines 313-335
ValidationVerdict(x, ctx, total_time) ==
    [H |-> x.H, ctx |-> [ctx EXCEPT !.stats = x.stats],
     rc |-> IF x.rc # 0 THEN x.rc
            ELSE IF TooSlow(total_time, ctx.config.max_inference_time_us)
                 THEN AI_ERROR_INFERENCE_TIMEOUT
            ELSE 0]

\* the steps of ai_init, in the order of lines 170-195
InitSteps == <<"ai_memory_init", "ai_neural_art_init_npu", "ai_load_ocr_models",
               "ai_validate_model_performance">>

\* an ai_init that reports every failure with the same code
InitStepError_Same(step) == AI_ERROR_INIT_FAILED

\* what ai_init returns when the given step fails, lines 173, 180, 187, 194
InitStepError(step) ==
    CASE step = "ai_memory_init" -> AI_ERROR_MEMORY_ALLOC_FAILED
      [] step = "ai_neural_art_init_npu" -> AI_ERROR_NPU_ERROR
      [] step = "ai_load_ocr_models" -> AI_ERROR_MODEL_LOAD_FAILED
      [] step = "ai_validate_model_performance" -> AI_ERROR_INIT_FAILED

\* ai_init(): possible outcomes for given accelerator and loader behaviour;
\* steps holds the results of the steps that ran, in the order they ran
\* (ai_memory_init always returns HAL_OK, which is 0)
ai_init(H, ctx, npu_in, det_ok, rec_ok, t) ==
    Bind(ai_memory_init(H), LAMBDA H1 :
    Bind(ai_neural_art_init_npu(ctx, npu_in), LAMBDA npu :
        IF npu.rc # 0
        THEN {[H |-> H1, ctx |-> npu.ctx, rc |-> InitStepError(InitSteps[2]),
               steps |-> <<0, npu.rc>>]}
        ELSE
    Bind(ai_load_ocr_models(npu.ctx, det_ok, rec_ok), LAMBDA ld :
        IF ld.rc # 0
        THEN {[H |-> H1, ctx |-> ld.ctx, rc |-> InitStepError(InitSteps[3]),
               steps |-> <<0, 0, ld.rc>>]}
        ELSE { IF v.rc # 0
               THEN [H |-> v.H, ctx |-> v.ctx, rc |-> InitStepError(InitSteps[4]),
                     steps |-> <<0, 0, 0, v.rc>>]
               ELSE [H |-> v.H, ctx |-> ai_stats_reset(v.ctx), rc |-> 0,
                     steps |-> <<0, 0, 0, 0>>]
               : v \in ai_validate_model_performance(H1, ld.ctx, t) })))

NoCycle == [n |-> 0, rc |-> 0, detected |-> 0, confidence |-> ZeroConf, regions |-> 0,
            time_us |-> 0, forwarded |-> 0, sent |-> {}, logged |-> <<>>,
            recov |-> 0, recov_rc |-> 0, before |-> ZeroContext]

NoRun == [streak |-> 0, base |-> 0, recov |-> 0, idle |-> 0, good |-> 0, held |-> 0,
          reported |-> {}]

\* the tasks that call the allocator concurrently (SpecTasks), each named by
\* its priority: the inference task and the monitor task
Tasks == {TASK_PRIORITY_AI, TASK_PRIORITY_SYSTEM}

\* every task asleep, holding no block
NoCallers == [t \in Tasks |-> [pc |-> "sleep", ptr |-> NULL, n |-> 0]]

(***************************************************************************)
(* ai_task.c: ocr_preprocess_image.  A pixel is a 16-bit RGB565 word; of   *)
(* the two buffers only the words of one destination pixel and of the      *)
(* source block it is computed from are kept.                              *)
(***************************************************************************)

\* a | b on unsigned words
RECURSIVE BitOr(_, _)
BitOr(a, b) ==
    IF a = 0 THEN b
    ELSE IF b = 0 THEN a
    ELSE (IF a % 2 = 1 \/ b % 2 = 1 THEN 1 ELSE 0) + 2 * BitOr(a \div 2, b \div 2)

\* the indices of the source words read for destination pixel (x, y),
\* lines 447-453
SourceIndices(x, y) ==
    <<(y * 2) * CAMERA_WIDTH + x * 2,
      (y * 2) * CAMERA_WIDTH + x * 2 + 1,
      (y * 2 + 1) * CAMERA_WIDTH + x * 2,
      (y * 2 + 1) * CAMERA_WIDTH + x * 2 + 1>>

\* a destination pixel that is the mean of the four packed words
AveragePixel_Packed(p) == ((p[1] + p[2] + p[3] + p[4]) \div 4) % 2 ^ 16

\* the destination pixel of the source pixels p[1..4], lines 456-461
AveragePixel(p) ==
    LET avg_r == ((p[1] \div 2 ^ 11) + (p[2] \div 2 ^ 11) + (p[3] \div 2 ^ 11)
                     + (p[4] \div 2 ^ 11)) \div 4
        avg_g == (((p[1] \div 2 ^ 5) % 64) + ((p[2] \div 2 ^ 5) % 64)
                     + ((p[3] \div 2 ^ 5) % 64) + ((p[4] \div 2 ^ 5) % 64)) \div 4
        avg_b == ((p[1] % 32) + (p[2] % 32) + (p[3] % 32) + (p[4] % 32)) \div 4
    IN  BitOr(BitOr(avg_r * 2 ^ 11, avg_g * 2 ^ 5), avg_b) % 2 ^ 16

\* ocr_preprocess_image(): the destination word of pixel (x, y) of a source
\* buffer src, as index and value
ocr_preprocess_image(src, x, y) ==
    [at |-> y * OCR_INPUT_WIDTH + x,
     pixel |-> AveragePixel([k \in 1..4 |-> src[SourceIndices(x, y)[k]]])]

\* no frame captured, nothing written
NoImage == [x |-> 0, y |-> 0, src |-> <<>>, dst |-> <<>>]

(***************************************************************************)
(* ai_task.c: the text of the recognised regions, joined in combined_text. *)
(* Of a string only its length is kept, and of the buffer the number of    *)
(* its bytes, counted from its start, that have been written.              *)
(***************************************************************************)
OCR_MAX_TEXT_LENGTH == 256        \* sizeof(combined_text)
REGION_TEXT_SIZE == 64            \* sizeof(region_text)
MAX_TEXT_REGIONS == 16            \* bound of the recognition loop

\* char combined_text[OCR_MAX_TEXT_LENGTH] = {0}: i regions appended, the
\* string len long, high bytes of the buffer touched; char_count is -1
\* until the text has been copied to the result
NoText == [i |-> 0, len |-> 0, high |-> 0, char_count |-> -1]

Larger(a, b) == IF a >= b THEN a ELSE b
Smaller(a, b) == IF a <= b THEN a ELSE b

\* strcat(dest, " "): the blank goes where the terminator was and a new
\* terminator behind it, whatever the size of dest
strcat_blank(t) ==
    [t EXCEPT !.len = t.len + 1, !.high = Larger(t.high, t.len + 2)]

\* strncat(dest, src, n) for a source of src_len characters: at most n of
\* them are appended, then a terminator
strncat(t, src_len, n) ==
    [t EXCEPT !.len = t.len + Smaller(src_len, n),
              !.high = Larger(t.high, t.len + Smaller(src_len, n) + 1)]

\* lines 388-392 of ocr_process_frame for an accepted region whose text is
\* src_len characters long; the count given to strncat is a size_t
AppendRegionText(t, src_len) ==
    Bind(IF t.len > 0 THEN strcat_blank(t) ELSE t, LAMBDA t1 :
        [strncat(t1, src_len, (OCR_MAX_TEXT_LENGTH - t1.len - 1) % U32)
            EXCEPT !.i = t.i + 1])

\* lines 400-402: strncpy(result->text, combined_text, OCR_MAX_TEXT_LENGTH - 1)
\* into the zeroed result, then strlen(result->text)
CopyText(t) == [t EXCEPT !.char_count = Smaller(t.len, OCR_MAX_TEXT_LENGTH - 1)]

(***************************************************************************)
(* system_task.h: the error log of the monitor.  The header declares the   *)
(* ring (error_log, error_log_head, error_log_tail, error_log_count) and   *)
(* the two functions; their bodies are not part of the sources, and are    *)
(* taken from the description of the log: a fixed-capacity ring that       *)
(* evicts its oldest entry when it is full.                                *)
(***************************************************************************)

\* an entry of the zero-initialised array
NoEntry == [timestamp |-> 0, task_id |-> 0, severity |-> "INFO", error_code |-> 0,
            context_data |-> 0]

\* system_context as the zero-initialised global (the error log part);
\* logged is history: the number of calls of system_log_error so far, and
\* read is history: what the last system_get_error_log returned
NoLog == [error_log |-> [i \in 0..(ERROR_LOG_SIZE - 1) |-> NoEntry],
          error_log_head |-> 0, error_log_tail |-> 0, error_log_count |-> 0,
          logged |-> 0, read |-> <<>>]

\* a log that drops the new entry when it is full
system_log_error_DropNewest(S, entry) ==
    IF S.error_log_count = ERROR_LOG_SIZE THEN S
    ELSE [S EXCEPT !.error_log[S.error_log_head] = entry,
                   !.error_log_head = (@ + 1) % ERROR_LOG_SIZE,
                   !.error_log_count = @ + 1]

\* system_log_error(): the entry is stored at the head; on a full ring the
\* tail moves on, which evicts the oldest entry
system_log_error(S, entry) ==
    [S EXCEPT !.error_log[S.error_log_head] = entry,
              !.error_log_head = (@ + 1) % ERROR_LOG_SIZE,
              !.error_log_tail = IF S.error_log_count = ERROR_LOG_SIZE
                                 THEN (@ + 1) % ERROR_LOG_SIZE ELSE @,
              !.error_log_count = IF @ = ERROR_LOG_SIZE THEN @ ELSE @ + 1]

\* system_get_error_log(entries, max_entries): the entries held, oldest
\* first, at most max_entries of them
system_get_error_log(S, max_entries) ==
    [k \in 1..(IF S.error_log_count < max_entries THEN S.error_log_count ELSE max_entries)
        |-> S.error_log[(S.error_log_tail + k - 1) % ERROR_LOG_SIZE]]

(***************************************************************************)
(* SpecMem: the allocator under an arbitrary sequential caller             *)
(***************************************************************************)

\* request sizes the caller draws from: zero, small blocks, the block that
\* fills an empty pool exactly, and one byte more
AllocSizes == {0, 1, 16, AI_MEMORY_POOL_SIZE - HeaderSize,
               AI_MEMORY_POOL_SIZE - HeaderSize + 1}

\* the request size of the runs in which the tick advances
AgeSizes == {1}

\* request sizes within (MEMORY_ALIGN + HeaderSize) of 2^32
WideSizes == {U32 - 1, U32 - 8, U32 - 16}

\* steps by which the tick advances: the leak age exactly, and just past it
TickSteps == {LEAK_AGE_MS, LEAK_AGE_MS + 1}

NoCalls == [other |-> 0, tick |-> 0]

NoOp == [op |-> "none", size |-> 0, ret |-> NULL, before |-> ZeroPool]

Running == trap = "none"

\* ai_memory_init() called again by the caller: every pointer handed out
\* before is stale from here on
MemInit ==
    /\ Running
    /\ calls.other < MaxOther
    /\ \E H \in {ai_memory_init(Heap)} : SetHeap(H)
    /\ handles' = [i \in 1..Len(handles) |-> [handles[i] EXCEPT !.st = "stale"]]
    /\ last_op' = [op |-> "init", size |-> 0, ret |-> NULL, before |-> ai_pool]
    /\ calls' = [calls EXCEPT !.other = @ + 1]
    /\ UNCHANGED now
    /\ UNCHANGED taskVars

\* p = ai_memory_alloc(size), while the caller holds fewer than cap pointers
MemAllocTo(size, cap) ==
    /\ Running
    /\ Len(handles) < cap
    /\ \E r \in {ai_memory_alloc(Heap, size, now)} :
           /\ SetHeap(r.H)
           /\ handles' = IF r.ret = NULL THEN handles
                         ELSE Append(handles,
                                [ptr |-> r.ret,
                                 lo  |-> r.ret - HeaderSize,
                                 hi  |-> r.ret + Field(r.H.pool_mem, r.ret - HeaderSize, F_SIZE),
                                 st  |-> "live",
                                 t   |-> now])
           /\ last_op' = [op |-> "alloc", size |-> size, ret |-> r.ret, before |-> ai_pool,
                          list |-> ListOf(pool_mem, allocated_blocks, {})]
    /\ UNCHANGED <<now, calls>>
    /\ UNCHANGED taskVars

\* p = ai_memory_alloc(size)
MemAlloc(size) == MemAllocTo(size, MaxAllocs)

\* ai_memory_free(p) for a pointer p that ai_memory_alloc returned earlier:
\* the matching free of a live pointer, or (bounded) a second free or the
\* free of a pointer from before a re-initialisation
MemFree(i) ==
    /\ Running
    /\ i \in 1..Len(handles)
    /\ handles[i].st # "live" => calls.other < MaxOther
    /\ \E H \in {ai_memory_free(Heap, handles[i].ptr)} : SetHeap(H)
    /\ handles' = [handles EXCEPT ![i].st = IF @ = "live" THEN "freed"
                                            ELSE IF @ = "freed" THEN "refreed" ELSE @]
    /\ last_op' = [op |-> IF handles[i].st = "live" THEN "free" ELSE "badfree",
                   size |-> 0, ret |-> handles[i].ptr, before |-> ai_pool,
                   list |-> ListOf(pool_mem, allocated_blocks, {}),
                   head |-> allocated_blocks, mem |-> pool_mem,
                   mutex |-> memory_mutex]
    /\ calls' = [calls EXCEPT !.other = IF handles[i].st = "live" THEN @ ELSE @ + 1]
    /\ UNCHANGED now
    /\ UNCHANGED taskVars

\* ai_memory_free(NULL)
MemFreeNull ==
    /\ Running
    /\ calls.other < MaxOther
    /\ \E H \in {ai_memory_free(Heap, NULL)} : SetHeap(H)
    /\ last_op' = [op |-> "free", size |-> 0, ret |-> NULL, before |-> ai_pool,
                   list |-> ListOf(pool_mem, allocated_blocks, {}),
                   head |-> allocated_blocks, mem |-> pool_mem,
                   mutex |-> memory_mutex]
    /\ calls' = [calls EXCEPT !.other = @ + 1]
    /\ UNCHANGED <<now, handles>>
    /\ UNCHANGED taskVars

\* n = ai_memory_check_leaks()
MemCheckLeaks ==
    /\ Running
    /\ calls.other < MaxOther
    /\ \E r \in {ai_memory_check_leaks(Heap, now)} :
           /\ SetHeap(r.H)
           /\ last_op' = [op |-> "check", size |-> 0, ret |-> r.ret, before |-> ai_pool,
                          t |-> now, head |-> allocated_blocks, mem |-> pool_mem]
    /\ calls' = [calls EXCEPT !.other = @ + 1]
    /\ UNCHANGED <<now, handles>>
    /\ UNCHANGED taskVars

\* the millisecond tick advances
Tick ==
    /\ Running
    /\ calls.tick < MaxTicks
    /\ \E d \in TickSteps : now' = (now + d) % U32
    /\ calls' = [calls EXCEPT !.tick = @ + 1]
    /\ UNCHANGED <<memVars, handles, last_op>>
    /\ UNCHANGED taskVars

vars == <<ai_pool, allocated_blocks, memory_mutex, pool_mem, trap, now,
          handles, last_op, calls, pc, ai_context, cycle, run, callers, system_context, image, combined_text>>

\* the allocator right after the first ai_memory_init()
InitMem ==
    /\ ai_pool = ai_memory_init(BootHeap).ai_pool
    /\ allocated_blocks = NULL
    /\ memory_mutex = 0
    /\ pool_mem = <<>>
    /\ trap = "none"
    /\ now = 0
    /\ handles = <<>>
    /\ last_op = NoOp
    /\ calls = NoCalls
    /\ pc = "boot"
    /\ ai_context = ZeroContext
    /\ cycle = NoCycle
    /\ run = NoRun
    /\ callers = NoCallers
    /\ system_context = NoLog
    /\ image = NoImage
    /\ combined_text = NoText

\* the caller draws its requests from AllocSizes; the tick stands still
NextMem ==
    \/ MemInit
    \/ \E size \in AllocSizes : MemAlloc(size)
    \/ \E i \in 1..MaxAllocs : MemFree(i)
    \/ MemCheckLeaks

SpecMem == InitMem /\ [][NextMem]_vars

\* the caller also asks for sizes within a header of 2^32
NextMemWide ==
    \/ MemInit
    \/ \E size \in {1} \cup WideSizes : MemAlloc(size)
    \/ \E i \in 1..MaxAllocs : MemFree(i)
    \/ MemCheckLeaks

SpecMemWide == InitMem /\ [][NextMemWide]_vars

\* the tick at which the caller starts: zero, or so late that the tick wraps
\* while the caller's blocks age
StartTicks == {0, U32 - LEAK_AGE_MS}

InitMemAge ==
    /\ now \in StartTicks
    /\ ai_pool = ai_memory_init(BootHeap).ai_pool
    /\ allocated_blocks = NULL
    /\ memory_mutex = 0
    /\ pool_mem = <<>>
    /\ trap = "none"
    /\ handles = <<>>
    /\ last_op = NoOp
    /\ calls = NoCalls
    /\ pc = "boot"
    /\ ai_context = ZeroContext
    /\ cycle = NoCycle
    /\ run = NoRun
    /\ callers = NoCallers
    /\ system_context = NoLog
    /\ image = NoImage
    /\ combined_text = NoText

\* blocks of one size, with time passing between the calls
NextMemAge ==
    \/ MemInit
    \/ \E size \in AgeSizes : MemAlloc(size)
    \/ \E i \in 1..MaxAllocs : MemFree(i)
    \/ MemCheckLeaks
    \/ Tick

SpecMemAge == InitMemAge /\ [][NextMemAge]_vars

(***************************************************************************)
(* SpecFrame: ocr_process_frame called on a pool in which a caller holds   *)
(* blocks, so that each of its allocations can run out of room             *)
(***************************************************************************)

\* the scratch buffer of ocr_process_frame, line 355
FrameBytes == OCR_INPUT_WIDTH * OCR_INPUT_HEIGHT * 2

\* blocks the caller holds: one that fills the pool, one that leaves room
\* for the frame buffer only, one that leaves room for the frame buffer and
\* the detector's buffer but not for a region buffer, and one that leaves
\* room for the frame buffer and a region buffer
FillSizes ==
    {AI_MEMORY_POOL_SIZE - HeaderSize,
     AI_MEMORY_POOL_SIZE - 2 * HeaderSize - FrameBytes,
     AI_MEMORY_POOL_SIZE - 3 * HeaderSize - FrameBytes - DETECTION_OUTPUT_BYTES,
     AI_MEMORY_POOL_SIZE - 3 * HeaderSize - FrameBytes - BoxBytes}

\* handle i is the block allocated last among those still held
NewestLive(i) ==
    /\ i \in 1..Len(handles)
    /\ handles[i].st = "live"
    /\ \A j \in (i + 1)..Len(handles) : handles[j].st # "live"

\* rc = ocr_process_frame(frame, &result)
FrameCall ==
    /\ Running
    /\ calls.other < MaxOther
    /\ \E fin \in FrameInputs, frame_ok \in BOOLEAN :
       \E r \in {ocr_process_frame(Heap, ai_context.stats, frame_ok, fin, now)} :
           /\ SetHeap(r.H)
           /\ ai_context' = [ai_context EXCEPT !.stats = r.stats]
           /\ last_op' = [op |-> "frame", size |-> 0, ret |-> r.rc, before |-> ai_pool,
                          list |-> ListOf(pool_mem, allocated_blocks, {}),
                          fin |-> fin, frame_ok |-> frame_ok, result |-> r.result,
                          stats |-> ai_context.stats]
    /\ calls' = [calls EXCEPT !.other = @ + 1]
    /\ UNCHANGED <<now, handles, pc, cycle, run, callers, system_context, image, combined_text>>

\* before the calls the accelerator is brought up (ai_neural_art_init_npu)
\* and some of the models are loaded (neural_art_load_model)
Bringup ==
    /\ Running
    /\ pc = "boot"
    /\ \E npu \in NpuOutcomes, ready \in SUBSET ModelIds :
           ai_context' = [ai_neural_art_init_npu(ai_context, npu).ctx EXCEPT
                             !.loaded = [m \in ModelIds |-> m \in ready]]
    /\ pc' = "up"
    /\ UNCHANGED <<memVars, now, histVars, cycle, run, callers, system_context, image, combined_text>>

\* rc = ai_self_test()
SelfTestCall ==
    /\ Running
    /\ calls.other < MaxOther
    /\ \E r \in {ai_self_test(Heap, ai_context, now)} :
           /\ SetHeap(r.H)
           /\ last_op' = [op |-> "self_test", size |-> 0, ret |-> r.rc, before |-> ai_pool,
                          list |-> ListOf(pool_mem, allocated_blocks, {}),
                          ctx |-> ai_context]
    /\ calls' = [calls EXCEPT !.other = @ + 1]
    /\ UNCHANGED <<now, handles, pc, ai_context, cycle, run, callers, system_context, image, combined_text>>

NextFrame ==
    \/ \E size \in FillSizes : MemAlloc(size)
    \/ \E i \in 1..MaxAllocs : NewestLive(i) /\ MemFree(i)
    \/ FrameCall

SpecFrame == InitMem /\ [][NextFrame]_vars

\* blocks the caller holds when ai_self_test is called: a small one, one
\* that fills the pool, one that leaves room for exactly the scratch buffer
\* of the self-test, and one that leaves a byte less
SelfTestFillSizes ==
    {1,
     AI_MEMORY_POOL_SIZE - HeaderSize,
     AI_MEMORY_POOL_SIZE - 2 * HeaderSize - SELF_TEST_BYTES,
     AI_MEMORY_POOL_SIZE - 2 * HeaderSize - SELF_TEST_BYTES + 1}

\* ai_self_test called on a pool in which a caller holds blocks, with the
\* accelerator and the models brought up in part or in full
NextSelfTest ==
    \/ \E size \in SelfTestFillSizes : MemAlloc(size)
    \/ \E i \in 1..MaxAllocs : NewestLive(i) /\ MemFree(i)
    \/ Bringup
    \/ SelfTestCall

SpecSelfTest == InitMem /\ [][NextSelfTest]_vars

(***************************************************************************)
(* SpecTasks: two tasks of different priority call the allocator.  A call  *)
(* is a sequence of steps, one per access to the shared state that another *)
(* task can observe: the test-and-set of the spin flag, the body of the    *)
(* critical section up to the store that clears the flag, and for the two  *)
(* functions that take no lock the stores themselves.  The scheduler is    *)
(* the preemptive fixed-priority scheduler of the kernel: the processor    *)
(* always runs the ready task of highest priority.                         *)
(***************************************************************************)

\* the request size of the tasks of SpecTasks
TaskSizes == {1}

Ready(t) == callers[t].pc # "sleep"

\* the task the processor runs: the ready task of highest priority
Scheduled(t) ==
    /\ Running
    /\ Ready(t)
    /\ \A u \in Tasks : Ready(u) => t <= u

At(t, pos) == Scheduled(t) /\ callers[t].pc = pos

Move(t, pos) == callers' = [callers EXCEPT ![t].pc = pos]

\* one iteration of while (__sync_lock_test_and_set(&memory_mutex, 1)) with
\* the flag reading m: the caller gives up instead of testing again
LockStep_GiveUp(m, spin, cs) == IF m = 0 THEN cs ELSE "idle"

\* one iteration of while (__sync_lock_test_and_set(&memory_mutex, 1)) with
\* the flag reading m: the position of the caller afterwards, inside the
\* critical section when the flag was clear, at the test again when not
LockStep(m, spin, cs) == IF m = 0 THEN cs ELSE spin

\* a sleeping task is made ready (its delay ends, its event arrives) and
\* preempts the running task if its priority is higher
Wake(t) ==
    /\ Running
    /\ callers[t].pc = "sleep"
    /\ Move(t, "idle")
    /\ UNCHANGED <<memVars, now, histVars, pc, ai_context, cycle, run, system_context, image, combined_text>>

\* the running task, between two allocator calls, goes to sleep
Sleep(t) ==
    /\ At(t, "idle")
    /\ Move(t, "sleep")
    /\ UNCHANGED <<memVars, now, histVars, pc, ai_context, cycle, run, system_context, image, combined_text>>

\* the running task enters one of the allocator functions
Call(t) ==
    /\ At(t, "idle")
    /\ \/ /\ callers[t].ptr = NULL
          /\ ai_pool.allocation_count < MaxAllocs
          /\ Move(t, "alloc_lock")
       \/ /\ callers[t].ptr # NULL
          /\ Move(t, "free_lock")
       \/ Move(t, "init_stats")
       \/ Move(t, "leaks_walk")
    /\ UNCHANGED <<memVars, now, histVars, pc, ai_context, cycle, run, system_context, image, combined_text>>

\* ai_memory_alloc, line 77, and ai_memory_free, line 128: one test-and-set
SpinLock(t) ==
    /\ \E op \in {"alloc", "free"} :
          /\ At(t, op \o "_lock")
          /\ Move(t, LockStep(memory_mutex, op \o "_lock", op \o "_cs"))
    /\ memory_mutex' = 1
    /\ UNCHANGED <<ai_pool, allocated_blocks, pool_mem, trap>>
    /\ UNCHANGED <<now, histVars, pc, ai_context, cycle, run, system_context, image, combined_text>>

\* ai_memory_alloc, lines 79-113: the critical section and the release
AllocBody(t) ==
    /\ At(t, "alloc_cs")
    /\ \E size \in TaskSizes :
       \E r \in {ai_memory_alloc([Heap EXCEPT !.memory_mutex = 0], size, now)} :
           /\ SetHeap(r.H)
           /\ callers' = [callers EXCEPT ![t].pc = "idle", ![t].ptr = r.ret]
    /\ UNCHANGED <<now, histVars, pc, ai_context, cycle, run, system_context, image, combined_text>>

\* ai_memory_free, lines 130-167: the critical section and the release
FreeBody(t) ==
    /\ At(t, "free_cs")
    /\ \E H \in {ai_memory_free([Heap EXCEPT !.memory_mutex = 0], callers[t].ptr)} :
           SetHeap(H)
    /\ callers' = [callers EXCEPT ![t].pc = "idle", ![t].ptr = NULL]
    /\ UNCHANGED <<now, histVars, pc, ai_context, cycle, run, system_context, image, combined_text>>

\* ai_memory_init, lines 52-59: the statistics are reset
InitStats(t) ==
    /\ At(t, "init_stats")
    /\ ai_pool' = ai_memory_init(Heap).ai_pool
    /\ Move(t, "init_list")
    /\ UNCHANGED <<allocated_blocks, memory_mutex, pool_mem, trap>>
    /\ UNCHANGED <<now, histVars, pc, ai_context, cycle, run, system_context, image, combined_text>>

\* ai_memory_init, lines 61-62: the list head and the spin flag are reset
InitList(t) ==
    /\ At(t, "init_list")
    /\ allocated_blocks' = ai_memory_init(Heap).allocated_blocks
    /\ memory_mutex' = ai_memory_init(Heap).memory_mutex
    /\ Move(t, "idle")
    /\ UNCHANGED <<ai_pool, pool_mem, trap>>
    /\ UNCHANGED <<now, histVars, pc, ai_context, cycle, run, system_context, image, combined_text>>

\* ai_memory_check_leaks, lines 188-200: the list is walked into the local
\* leak_count
LeaksWalk(t) ==
    /\ At(t, "leaks_walk")
    /\ \E r \in {ai_memory_check_leaks(Heap, now)} :
           /\ trap' = r.H.trap
           /\ callers' = [callers EXCEPT ![t].pc = "leaks_add", ![t].n = r.ret]
    /\ UNCHANGED <<ai_pool, allocated_blocks, memory_mutex, pool_mem>>
    /\ UNCHANGED <<now, histVars, pc, ai_context, cycle, run, system_context, image, combined_text>>

\* ai_memory_check_leaks, line 202: ai_pool.leak_count += leak_count
LeaksAdd(t) ==
    /\ At(t, "leaks_add")
    /\ ai_pool' = [ai_pool EXCEPT !.leak_count = (@ + callers[t].n) % U32]
    /\ callers' = [callers EXCEPT ![t].pc = "idle", ![t].n = 0]
    /\ UNCHANGED <<allocated_blocks, memory_mutex, pool_mem, trap>>
    /\ UNCHANGED <<now, histVars, pc, ai_context, cycle, run, system_context, image, combined_text>>

NextTasks ==
    \E t \in Tasks :
        \/ Wake(t)
        \/ Sleep(t)
        \/ Call(t)
        \/ SpinLock(t)
        \/ AllocBody(t)
        \/ FreeBody(t)
        \/ InitStats(t)
        \/ InitList(t)
        \/ LeaksWalk(t)
        \/ LeaksAdd(t)

SpecTasks == InitMem /\ [][NextTasks]_vars

(***************************************************************************)
(* Spec: the inference task                                                *)
(***************************************************************************)

\* create_ai_task(): the context is cleared and the defaults are set
create_ai_task ==
    /\ Running
    /\ pc = "boot"
    /\ ai_context' = [ZeroContext EXCEPT
           !.current_state = "IDLE",
           !.config = [confidence_threshold |-> DEFAULT_CONFIDENCE_THRESHOLD,
                       max_inference_time_us |-> DEFAULT_MAX_INFERENCE_TIME_US]]
    /\ pc' = "created"
    /\ UNCHANGED <<memVars, now, histVars, cycle, run, callers, system_context, image, combined_text>>

\* neural_art_load_model(model_type, data, size) of ai_memory.c, called with
\* valid data before the task starts: the slot is marked loaded
neural_art_load_model(model_type) ==
    /\ Running
    /\ pc = "created"
    /\ model_type \in ModelIds
    /\ ~ai_context.loaded[model_type]
    /\ ai_context' = [ai_context EXCEPT !.loaded[model_type] = TRUE]
    /\ UNCHANGED <<memVars, now, histVars, pc, cycle, run, callers, system_context, image, combined_text>>

\* ai_task_entry() from its start to the head of the main loop
TaskStart ==
    /\ Running
    /\ pc = "created"
    /\ \E npu \in NpuOutcomes, det_ok \in BOOLEAN, rec_ok \in BOOLEAN :
         \E o \in ai_init(Heap, ai_context, npu, det_ok, rec_ok, now) :
            /\ SetHeap(o.H)
            /\ IF o.rc # 0
               THEN /\ ai_context' = [o.ctx EXCEPT !.current_state = "ERROR"]
                    /\ cycle' = [cycle EXCEPT !.logged =
                           <<[severity |-> "CRITICAL", code |-> AI_ERROR_INIT_FAILED,
                              context |-> 0]>>]
                    /\ pc' = "returned"
               ELSE /\ ai_context' = [o.ctx EXCEPT !.current_state = "READY"]
                    /\ cycle' = cycle
                    /\ pc' = "loop"
            /\ last_op' = [op |-> "ai_init", size |-> 0, ret |-> o.rc, before |-> ai_pool,
                           steps |-> o.steps,
                           npu |-> npu, det_ok |-> det_ok, rec_ok |-> rec_ok]
    /\ UNCHANGED <<now, handles, calls, run, callers, system_context, image, combined_text>>

\* what camera_get_frame() hands to the task
CameraOutcomes == {"none", "not_ready", "ready"}

\* head of the loop body: the frame is fetched; a ready frame starts a cycle
LoopGetFrame ==
    /\ Running
    /\ pc = "loop"
    /\ \E frame \in CameraOutcomes :
         IF frame = "ready"
         THEN /\ cycle.n < MaxFrames
              /\ ai_context' = [ai_context EXCEPT !.current_state = "INFERENCING"]
              /\ pc' = "infer"
              /\ run' = [run EXCEPT !.held = @ + 1]
              /\ cycle' = [NoCycle EXCEPT !.n = cycle.n]
         ELSE /\ run.idle < MaxIdle
              /\ run' = [run EXCEPT !.idle = @ + 1,
                                     !.held = IF frame = "none" THEN @ ELSE @ + 1]
              /\ pc' = "monitor"
              /\ ai_context' = ai_context
              /\ cycle' = cycle
    /\ UNCHANGED <<memVars, now, histVars, callers, system_context, image, combined_text>>

\* the queues that receive an accepted result: ai_task_entry, line 117, calls
\* audio_queue_ocr_result and nothing else
Submitted(pass) == IF pass THEN {"synthesis"} ELSE {}

\* a timing check that also reports a cycle exactly at the budget
OverBudget_AtBudget(inference_time_us, budget) == inference_time_us >= budget

\* the timing check of ai_task_entry, line 128
OverBudget(inference_time_us, budget) == inference_time_us > budget

\* the success branch of the cycle, lines 108-133: statistics, gate, timing
\* check; the context afterwards and what was sent and logged
CycleSuccess(ctx, result, tm) ==
    LET c2   == ai_stats_update_quality(ctx, result.confidence)
        pass == GatePass(result.confidence, c2.config.confidence_threshold)
        late == OverBudget(tm, c2.config.max_inference_time_us)
    IN  [ctx |-> IF pass THEN c2
                 ELSE [c2 EXCEPT !.stats.low_confidence_count = (@ + 1) % U32],
         forwarded |-> IF pass THEN 1 ELSE 0,
         sent |-> Submitted(pass),
         logged |-> IF late
                    THEN <<[severity |-> "WARNING", code |-> AI_ERROR_INFERENCE_TIMEOUT,
                            context |-> tm]>>
                    ELSE <<>>]

\* an error branch that leaves the failure count to ocr_process_frame
CycleError_Uncounted(H, ctx, rc, rin, t) == ai_handle_inference_error(H, ctx, rc, rin, t)

\* the error branch of the cycle, lines 135-139
CycleError(H, ctx, rc, rin, t) ==
    LET e == ai_handle_inference_error(H, ctx, rc, rin, t)
    IN  [e EXCEPT !.ctx.stats.failed_inferences = (@ + 1) % U32]

\* the cycle: ocr_process_frame, then the success or the error branch,
\* release of the frame, back to READY
LoopInfer ==
    /\ Running
    /\ pc = "infer"
    /\ \E fin \in FrameInputs :
       \E r \in {ocr_process_frame(Heap, ai_context.stats, TRUE, fin, now)} :
       \E tm \in InferenceTimes :
         IF r.rc = 0
         THEN \E s \in {CycleSuccess([ai_context EXCEPT !.stats = r.stats], r.result, tm)} :
              /\ run.good < MaxGood
              /\ SetHeap(r.H)
              /\ ai_context' = [s.ctx EXCEPT !.current_state = "READY"]
              /\ cycle' = [n |-> cycle.n + 1, rc |-> 0, detected |-> fin.det,
                           confidence |-> r.result.confidence,
                           regions |-> r.result.regions, time_us |-> tm,
                           forwarded |-> s.forwarded, sent |-> s.sent,
                           logged |-> s.logged,
                           recov |-> 0, recov_rc |-> 0, before |-> ai_context]
              /\ run' = [run EXCEPT !.streak = 0, !.base = 0, !.recov = 0, !.good = @ + 1,
                                     !.held = @ - 1]
              /\ now' = now
         ELSE \E rin \in RecoveryChoices(ai_context) :
              \E e \in {CycleError(r.H, [ai_context EXCEPT !.stats = r.stats],
                                   r.rc, rin, now)} :
              /\ SetHeap(e.H)
              /\ ai_context' = [e.ctx EXCEPT !.current_state = "READY"]
              /\ cycle' = [n |-> cycle.n + 1, rc |-> r.rc, detected |-> fin.det,
                           confidence |-> ZeroConf, regions |-> 0, time_us |-> tm,
                           forwarded |-> 0, sent |-> {}, logged |-> e.logged,
                           recov |-> e.recov, recov_rc |-> e.rc,
                           before |-> ai_context]
              /\ run' = IF run.streak = 0
                        THEN [run EXCEPT !.streak = 1,
                                         !.base = ai_context.consecutive_errors,
                                         !.recov = e.recov,
                                         !.held = @ - 1]
                        ELSE [run EXCEPT !.streak = @ + 1, !.recov = @ + e.recov,
                                         !.held = @ - 1]
              /\ now' = IF e.recov = 1 THEN (now + RECOVERY_DELAY_MS) % U32 ELSE now
    /\ pc' = "monitor"
    /\ UNCHANGED <<histVars, callers, system_context, image, combined_text>>

\* the functions of the monitor that the tail of the loop body calls, lines
\* 147-155: the status report (ai_performance_monitor_task calls none)
MonitorCalls == {"system_update_task_status"}

\* tail of the loop body: monitoring, status report, and the period delay
LoopMonitor ==
    /\ Running
    /\ pc = "monitor"
    /\ now' = (now + AI_TASK_PERIOD_MS) % U32
    /\ pc' = "loop"
    /\ run' = [run EXCEPT !.reported = MonitorCalls]
    /\ UNCHANGED <<memVars, histVars, ai_context, cycle, callers, system_context, image, combined_text>>

\* the statics before main() has created the task
Init ==
    /\ ai_pool = ZeroPool
    /\ allocated_blocks = NULL
    /\ memory_mutex = 0
    /\ pool_mem = <<>>
    /\ trap = "none"
    /\ now = 0
    /\ handles = <<>>
    /\ last_op = NoOp
    /\ calls = NoCalls
    /\ pc = "boot"
    /\ ai_context = ZeroContext
    /\ cycle = NoCycle
    /\ run = NoRun
    /\ callers = NoCallers
    /\ system_context = NoLog
    /\ image = NoImage
    /\ combined_text = NoText

Next ==
    \/ create_ai_task
    \/ \E m \in {AI_MODEL_PREPROCESSING} : neural_art_load_model(m)
    \/ TaskStart
    \/ LoopGetFrame
    \/ LoopInfer
    \/ LoopMonitor

Spec == Init /\ [][Next]_vars


(***************************************************************************)
(* Claims about the allocator                                              *)
(***************************************************************************)

\* the handles the caller still holds allocated
Live == {i \in 1..Len(handles) : handles[i].st = "live"}

\* C1: ai_memory_alloc(size) never returns a pointer when allocated_size +
\* size rounded up to 8 + header size exceeds the pool capacity, and
\* allocated_size never exceeds pool_size.
C1_CapacityRespected ==
    /\ (last_op.op = "alloc" /\ last_op.ret # NULL) =>
          last_op.before.allocated_size + MathAlign8(last_op.size) + HeaderSize
              <= AI_MEMORY_POOL_SIZE
    /\ ai_pool.allocated_size <= ai_pool.pool_size

\* C2: the block a successful ai_memory_alloc returns does not overlap any
\* block that is still allocated.
C2_NewBlockDisjoint ==
    (last_op.op = "alloc" /\ last_op.ret # NULL) =>
        \A i \in Live \ {Len(handles)} :
            \/ handles[i].hi <= handles[Len(handles)].lo
            \/ handles[Len(handles)].hi <= handles[i].lo

\* C3: once every pointer returned has been freed exactly once (and nothing
\* but ai_memory_alloc and these frees was called), allocated_size and
\* allocation_count - free_count are back at their values for the empty pool.
C3_BalanceLaw ==
    (/\ handles # <<>>
     /\ \A i \in 1..Len(handles) : handles[i].st = "freed"
     /\ calls.other = 0) =>
        /\ ai_pool.allocated_size = 0
        /\ ai_pool.allocation_count - ai_pool.free_count = 0

\* C4: between allocator calls the number of blocks reachable from the list
\* head equals allocation_count - free_count.
C4_ListLengthMatchesCounts ==
    Running =>
        ListLen(pool_mem, allocated_blocks, {}) =
            ai_pool.allocation_count - ai_pool.free_count

(***************************************************************************)
(* Claims about the inference task                                         *)
(***************************************************************************)

\* a cycle has been run and the task is past it: cycle describes that cycle
\* and ai_context is the context it left
AfterCycle == cycle.n > 0 /\ pc # "infer"

\* the result of the last cycle is below the threshold that was configured
BelowThreshold ==
    cycle.confidence.num < cycle.before.config.confidence_threshold * cycle.confidence.den

\* C5: the result of a processed frame is handed to audio_queue_ocr_result
\* if and only if its confidence is at least config.confidence_threshold; a
\* result below the threshold is not forwarded, and the frame is counted in
\* total_inferences either way.
C5_ConfidenceGating ==
    (AfterCycle /\ cycle.rc = 0) =>
        /\ cycle.forwarded \in {0, 1}
        /\ cycle.forwarded = 1 <=> ~BelowThreshold
        /\ ai_context.stats.total_inferences = cycle.before.stats.total_inferences + 1

\* a result has just been forwarded after an earlier one was held back
C5_Witness ==
    /\ AfterCycle
    /\ cycle.rc = 0
    /\ cycle.forwarded = 1
    /\ cycle.confidence.num = DEFAULT_CONFIDENCE_THRESHOLD * cycle.confidence.den
    /\ ai_context.stats.low_confidence_count > 0

\* C6: over a processed frame whose result is below the threshold
\* low_confidence_count rises by exactly 1; for a result at or above the
\* threshold it does not change.
C6_LowConfidenceCountedOnce ==
    (AfterCycle /\ cycle.rc = 0) =>
        ai_context.stats.low_confidence_count =
            cycle.before.stats.low_confidence_count + (IF BelowThreshold THEN 1 ELSE 0)

\* C7: from consecutive_errors = 0, a run of failing cycles makes no
\* recovery attempt during its first 5 errors and exactly one, on the 6th,
\* by the time it is 6 errors long.
C7_SixErrorsOneRecovery ==
    (AfterCycle /\ run.base = 0) =>
        /\ run.streak \in 1..RECOVERY_ERROR_LIMIT => (run.recov = 0 /\ cycle.recov = 0)
        /\ run.streak = RECOVERY_ERROR_LIMIT + 1 => (run.recov = 1 /\ cycle.recov = 1)

\* the sixth failing cycle in a row, counted from consecutive_errors = 0
C7_Witness ==
    /\ AfterCycle
    /\ run.base = 0
    /\ run.streak = RECOVERY_ERROR_LIMIT + 1
    /\ cycle.rc # 0

\* C8: ai_recovery_attempt is called only when more than 5 errors have been
\* reported with no successfully processed frame in between.
C8_RecoveryOnlyAfterRun ==
    (AfterCycle /\ cycle.recov = 1) => run.streak > RECOVERY_ERROR_LIMIT

\* C9: after a recovery attempt that fails, at whichever step, the failure
\* count is back at zero, so that the next error does not start another
\* attempt.
C9_FailedRecoveryRestartsCount ==
    (AfterCycle /\ cycle.recov = 1 /\ cycle.recov_rc # 0) =>
        /\ ai_context.consecutive_errors = 0
        /\ ~RecoveryDue(ai_context.consecutive_errors + 1)

\* the edges of the pipeline state machine as specified
SpecEdge(from, to) ==
    \/ from = "IDLE" /\ to = "LOADING"
    \/ from = "LOADING" /\ to = "READY"
    \/ from = "READY" /\ to = "INFERENCING"
    \/ from = "INFERENCING" /\ to = "POSTPROCESSING"
    \/ from = "POSTPROCESSING" /\ to = "READY"
    \/ to = "ERROR"
    \/ from = "ERROR" /\ to = "LOADING"

\* C10: ai_context.current_state changes only along the edges Idle->Loading,
\* Loading->Ready, Ready->Inferencing, Inferencing->PostProcessing,
\* PostProcessing->Ready, any->Error and Error->Loading.
C10_OnlySpecifiedEdges ==
    [][ai_context'.current_state # ai_context.current_state =>
           SpecEdge(ai_context.current_state, ai_context'.current_state)]_vars

(***************************************************************************)
(* Claims about the helpers of the inference task                          *)
(***************************************************************************)

\* C11: whatever ocr_process_frame returns, every scratch block it and its
\* helpers took from the pool has been freed: allocated_size and the
\* allocated-block list are as they were at entry.
C11_ScratchReleased ==
    last_op.op = "frame" =>
        /\ trap = "none"
        /\ ai_pool.allocated_size = last_op.before.allocated_size
        /\ ListOf(pool_mem, allocated_blocks, {}) = last_op.list
        /\ ai_pool.allocation_count - ai_pool.free_count =
               last_op.before.allocation_count - last_op.before.free_count
        /\ ai_pool.leak_count = last_op.before.leak_count

\* the frame buffer was taken and a later allocation of the same call found
\* no room, while the caller holds blocks
C11_Witness ==
    /\ last_op.op = "frame"
    /\ last_op.ret = AI_ERROR_MEMORY_ALLOC_FAILED
    /\ ai_pool.allocation_count > last_op.before.allocation_count
    /\ last_op.list # <<>>

(***************************************************************************)
(* Claims about tasks that share the allocator (SpecTasks)                 *)
(***************************************************************************)

\* task t is between a successful test-and-set and its release of the flag
InCS(t) == callers[t].pc \in {"alloc_cs", "free_cs"}

\* the next step of task t stores into the allocator state
Writes(t) == callers[t].pc \in {"alloc_cs", "free_cs", "init_stats", "init_list", "leaks_add"}

\* C12: the allocator state (statistics with leak_count, block list,
\* re-initialisation) is only written under memory_mutex: at most one task
\* is inside a critical section, and a task about to write holds the lock.
C12_LockDiscipline ==
    /\ Cardinality({t \in Tasks : InCS(t)}) <= 1
    /\ \A t \in Tasks : Writes(t) => InCS(t) /\ memory_mutex = 1

\* a task of lower priority was preempted inside a critical section and a
\* task of higher priority is at the test-and-set of the flag it holds
Inverted ==
    \E lo, hi \in Tasks :
        /\ hi < lo
        /\ InCS(lo)
        /\ memory_mutex = 1
        /\ callers[hi].pc \in {"alloc_lock", "free_lock"}

\* C13: the spin lock admits priority inversion: once a lower-priority task
\* is preempted holding memory_mutex and a higher-priority task spins in
\* alloc or free, the higher-priority task spins for ever.
C13_InversionIsPermanent == [][Inverted => Inverted']_vars

C13_Witness ==
    /\ Inverted
    /\ callers[TASK_PRIORITY_SYSTEM].pc = "free_cs"
    /\ callers[TASK_PRIORITY_AI].pc = "alloc_lock"

(***************************************************************************)
(* Claims about one cycle of the inference task (Spec)                     *)
(***************************************************************************)

\* entries of the given severity that the last cycle sent to the monitor's log
Logged(severity) == {i \in DOMAIN cycle.logged : cycle.logged[i].severity = severity}

\* C14: a cycle that processed its frame in more than
\* config.max_inference_time_us logs exactly one WARNING entry, its result
\* is still forwarded or held back by its confidence alone, and the state
\* does not become ERROR; a cycle at or below the budget logs no warning.
C14_DeadlineReporting ==
    (AfterCycle /\ cycle.rc = 0) =>
        /\ cycle.time_us > cycle.before.config.max_inference_time_us =>
              /\ Cardinality(Logged("WARNING")) = 1
              /\ cycle.forwarded = 1 <=> ~BelowThreshold
              /\ ai_context.current_state # "ERROR"
        /\ cycle.time_us <= cycle.before.config.max_inference_time_us =>
              Logged("WARNING") = {}

\* a frame processed in 9000 us against the budget of 8000 us, its result
\* forwarded
C14_Witness ==
    /\ AfterCycle
    /\ cycle.rc = 0
    /\ cycle.time_us = 9000
    /\ cycle.before.config.max_inference_time_us = DEFAULT_MAX_INFERENCE_TIME_US
    /\ cycle.forwarded = 1
    /\ Len(cycle.logged) = 1

(***************************************************************************)
(* Claims about ai_memory_check_leaks (SpecMemAge)                         *)
(***************************************************************************)

\* age of the block behind handle i at the tick of the last check, in uint32_t
Age(i) == (last_op.t - handles[i].t) % U32

\* C15: ai_memory_check_leaks counts exactly the blocks that were handed
\* out, not freed since, and are older than 30000 ms: a held block is not
\* counted at age <= 30000, is counted by every check at age > 30000, and a
\* freed block is never counted.
C15_LeakAge ==
    last_op.op = "check" =>
        /\ trap = "none"
        /\ last_op.ret = Cardinality({i \in 1..Len(handles) :
                              handles[i].st = "live" /\ Age(i) > LEAK_AGE_MS})

(***************************************************************************)
(* Claims about ai_init and ai_self_test                                   *)
(***************************************************************************)

\* C16: ai_init runs ai_memory_init, ai_neural_art_init_npu,
\* ai_load_ocr_models and ai_validate_model_performance in this order, stops
\* at the first step that fails and returns a non-zero code that tells the
\* failing step from every other; after a failed ai_init the state is ERROR
\* and no frame is ever processed.
C16_InitStopsAtFirstFailure ==
    last_op.op = "ai_init" =>
        LET steps == last_op.steps
            last  == Len(steps)
        IN  /\ last \in 1..Len(InitSteps)
            /\ \A i \in 1..(last - 1) : steps[i] = 0
            /\ last_op.ret = 0 <=> (last = Len(InitSteps) /\ steps[last] = 0)
            /\ last_op.ret # 0 =>
                  /\ steps[last] # 0
                  /\ last_op.ret = InitStepError(InitSteps[last])
                  /\ \A i \in 1..Len(InitSteps) :
                         InitStepError(InitSteps[i]) = last_op.ret => i = last
                  /\ ai_context.current_state = "ERROR"
                  /\ pc = "returned"
                  /\ cycle.n = 0

\* ai_init stopped at the model load and did not run the validation pass
C16_Witness ==
    /\ last_op.op = "ai_init"
    /\ last_op.ret = AI_ERROR_MODEL_LOAD_FAILED
    /\ Len(last_op.steps) = 3
    /\ pc = "returned"

\* C17: a frame in which the detector ran and no region was accepted (no
\* box, or every region failed or was at or below the acceptance
\* confidence) makes ocr_process_frame return 0 with the cleared result
\* (confidence 0, text as cleared); over the cycle total_inferences and
\* failed_inferences rise by 1 each, successful_inferences and
\* consecutive_errors do not change, and no error is logged.
C17_NoRegionIsNotAnError ==
    (AfterCycle /\ cycle.detected >= 0 /\ cycle.regions = 0) =>
        /\ cycle.rc = 0
        /\ cycle.confidence = ZeroConf
        /\ ai_context.stats.total_inferences = cycle.before.stats.total_inferences + 1
        /\ ai_context.stats.failed_inferences = cycle.before.stats.failed_inferences + 1
        /\ ai_context.stats.successful_inferences =
               cycle.before.stats.successful_inferences
        /\ ai_context.consecutive_errors = cycle.before.consecutive_errors
        /\ Logged("ERROR") = {}
        /\ Logged("CRITICAL") = {}

\* a frame with one box whose region was not accepted, after a failed cycle
C17_Witness ==
    /\ AfterCycle
    /\ cycle.detected = 1
    /\ cycle.regions = 0
    /\ cycle.rc = 0
    /\ cycle.before.consecutive_errors > 0

\* the pool had room for the scratch buffer of ai_self_test when it was called
SelfTestRoom ==
    ~NoRoom(last_op.before.allocated_size, HeaderSize + Align8(SELF_TEST_BYTES),
            last_op.before.pool_size)

\* C18: ai_self_test checks the accelerator handle, then that every model
\* is loaded, then a scratch allocation and its free; it returns -1, -2 or
\* -3 for the first check that fails and 0 only when all three pass, and
\* allocated_size is afterwards what it was before.
C18_SelfTestOrder ==
    last_op.op = "self_test" =>
        LET handle == last_op.ctx.npu_handle
            loaded == \A m \in ModelIds : last_op.ctx.loaded[m]
        IN  /\ trap = "none"
            /\ last_op.ret = -1 <=> ~handle
            /\ last_op.ret = -2 <=> (handle /\ ~loaded)
            /\ last_op.ret = -3 <=> (handle /\ loaded /\ ~SelfTestRoom)
            /\ last_op.ret = 0 <=> (handle /\ loaded /\ SelfTestRoom)
            /\ ai_pool.allocated_size = last_op.before.allocated_size
            /\ ListOf(pool_mem, allocated_blocks, {}) = last_op.list

\* the self-test passed on a pool in which a block is held
C18_Witness ==
    /\ last_op.op = "self_test"
    /\ last_op.ret = 0
    /\ ai_pool.allocated_size > 0
    /\ ai_pool.allocation_count > last_op.before.allocation_count

(***************************************************************************)
(* Claims about what the inference task hands on and gives back (Spec)     *)
(***************************************************************************)

\* C19: every result that passes the confidence gate is submitted to the
\* synthesis queue and to the actuation queue, in the cycle that produced
\* it (so in the order of production).
C19_ForwardedToBothQueues ==
    (AfterCycle /\ cycle.rc = 0 /\ ~BelowThreshold) =>
        cycle.sent = {"synthesis", "actuation"}

\* C20: every frame camera_get_frame hands to the task (every pointer that
\* is not NULL) has been passed to camera_release_frame exactly once when
\* the task calls camera_get_frame again.
C20_FrameReleased == pc = "loop" => run.held = 0

(***************************************************************************)
(* Claims about the inference task and the monitor (Spec)                  *)
(***************************************************************************)

\* the task is at the head of its loop after at least one full iteration
IterationDone == pc = "loop" /\ (cycle.n > 0 \/ run.idle > 0)

\* C21: in every iteration of its main loop the inference task calls
\* system_watchdog_reset at least once.
C21_WatchdogResetEachIteration ==
    IterationDone => "system_watchdog_reset" \in run.reported

(***************************************************************************)
(* Claims about the failure paths of the allocator (SpecMemDeep)           *)
(***************************************************************************)

\* one pointer more than in SpecMem, so that a block can drop out of the list
\* while three others are allocated around it
DeepAllocs == MaxAllocs + 1

\* the caller allocates, frees what it was handed (once, or again) and frees
\* NULL
NextMemDeep ==
    \/ \E size \in AllocSizes : MemAllocTo(size, DeepAllocs)
    \/ \E i \in 1..DeepAllocs : MemFree(i)
    \/ MemFreeNull

SpecMemDeep == InitMem /\ [][NextMemDeep]_vars

\* the last call was ai_memory_free
Freed == last_op.op \in {"free", "badfree"}

\* the header the freed pointer points behind, as it was when free was called
FreedBlock == last_op.ret - HeaderSize

\* when free was called the header did not carry the tag
BadTag == Field(last_op.mem, FreedBlock, F_MAGIC) # MEMORY_MAGIC

\* when free was called the block was not among those reachable from the
\* list head
NotListed == \A k \in 1..Len(last_op.list) : last_op.list[k] # FreedBlock

\* nothing but leak_count, which rose by 1, differs from before the call
OnlyLeakCounted ==
    /\ trap = "none"
    /\ ai_pool = [last_op.before EXCEPT !.leak_count = (@ + 1) % U32]
    /\ allocated_blocks = last_op.head
    /\ pool_mem = last_op.mem
    /\ memory_mutex = 0

\* C22: ai_memory_free of a pointer whose header does not carry the tag, or
\* whose block is not in the allocated list, adds 1 to leak_count, changes
\* nothing else and releases the lock; ai_memory_free(NULL) changes nothing.
C22_RejectedFreeOnlyCounts ==
    Freed =>
        /\ (last_op.ret # NULL /\ (BadTag \/ NotListed)) => OnlyLeakCounted
        /\ last_op.ret = NULL =>
              /\ trap = "none"
              /\ ai_pool = last_op.before
              /\ pool_mem = last_op.mem
              /\ memory_mutex = last_op.mutex
              /\ allocated_blocks = last_op.head

\* the last call was ai_memory_alloc with a size of zero, or with a size
\* that, rounded up and with its header, did not fit into what was left
MustFail ==
    /\ last_op.op = "alloc"
    /\ \/ last_op.size = 0
       \/ last_op.before.allocated_size + MathAlign8(last_op.size) + HeaderSize
              > AI_MEMORY_POOL_SIZE

\* C23: ai_memory_alloc of size zero, or of a size that would exceed the
\* capacity, returns NULL, leaves the five statistics and the allocated list
\* as they were, and does not leave the lock held.
C23_FailedAllocIsClean ==
    MustFail =>
        /\ last_op.ret = NULL
        /\ trap = "none"
        /\ ai_pool = last_op.before
        /\ ListOf(pool_mem, allocated_blocks, {}) = last_op.list
        /\ memory_mutex = 0

(***************************************************************************)
(* Claims about the recognition loop of ocr_process_frame (SpecFrame)      *)
(***************************************************************************)

\* the last call was ocr_process_frame and it reached its recognition loop
LoopRan == last_op.op = "frame" /\ last_op.ret = 0

\* with the frame buffer held, the pool had room for a region buffer
RegionRoom ==
    ~NoRoom(last_op.before.allocated_size + HeaderSize + Align8(FrameBytes),
            HeaderSize + Align8(BoxBytes), AI_MEMORY_POOL_SIZE)

\* the regions of the frame that were recognised without error
Recognised == {k \in DOMAIN last_op.fin.regs : RegionRoom /\ last_op.fin.regs[k] # NpuFail}

\* the sum of the confidences of the regions in S
RECURSIVE SumConfidence(_)
SumConfidence(S) ==
    IF S = {} THEN 0
    ELSE LET k == CHOOSE k \in S : TRUE
         IN  last_op.fin.regs[k] + SumConfidence(S \ {k})

\* the result aggregates exactly the regions in S
Aggregates(S) ==
    /\ last_op.result.regions = Cardinality(S)
    /\ last_op.result.confidence =
           IF S = {} THEN ZeroConf
           ELSE [num |-> SumConfidence(S), den |-> Cardinality(S)]

\* C24 as stated: a region recognised without error is accepted into the
\* aggregate if and only if its confidence is 0.5 or higher.
C24_AcceptedFromHalf ==
    LoopRan =>
        Aggregates({k \in Recognised : last_op.fin.regs[k] >= REGION_ACCEPT_CONFIDENCE})

\* C24: a region recognised without error is accepted into the aggregate
\* (mean confidence, accepted-region count) if and only if its confidence is
\* above 0.5; a region at exactly 0.5 or below contributes nothing.
C24_AcceptedAboveHalf ==
    LoopRan =>
        Aggregates({k \in Recognised : last_op.fin.regs[k] > REGION_ACCEPT_CONFIDENCE})

\* a region was recognised without error at exactly 0.5 and was left out
C24_Witness ==
    /\ LoopRan
    /\ RegionRoom
    /\ \E k \in DOMAIN last_op.fin.regs : last_op.fin.regs[k] = REGION_ACCEPT_CONFIDENCE
    /\ last_op.result.regions = 0

(***************************************************************************)
(* SpecValidate: the validation pass of ai_init, on the pool as            *)
(* ai_memory_init left it and with the configuration of create_ai_task     *)
(***************************************************************************)

\* rc = ai_validate_model_performance(), as ai_init calls it at line 191
ValidateCall ==
    /\ Running
    /\ pc = "created"
    /\ \E plan \in ValidationPlans :
       \E x \in {ValLoop([H |-> Heap, stats |-> ai_context.stats, rc |-> 0], 1, plan, now)} :
       \E total \in TimeSums(VALIDATION_ITERATIONS) :
       \E r \in {ValidationVerdict(x, ai_context, total)} :
           /\ SetHeap(r.H)
           /\ ai_context' = r.ctx
           /\ last_op' = [op |-> "validate", size |-> 0, ret |-> r.rc, before |-> ai_pool,
                          plan |-> plan, total |-> total]
    /\ pc' = "validated"
    /\ UNCHANGED <<now, handles, calls, cycle, run, callers, system_context, image, combined_text>>

NextValidate ==
    \/ create_ai_task
    \/ ValidateCall

SpecValidate == InitMem /\ [][NextValidate]_vars

\* the average the pass computes: the sum of the measured times divided by
\* the number of iterations, in whole microseconds
AverageTime == last_op.total \div VALIDATION_ITERATIONS

\* C25: the validation pass rejects the initialisation if and only if one
\* of its inferences fails or the average latency of the 10 inferences
\* exceeds config.max_inference_time_us; otherwise it passes.
C25_ValidationVerdict ==
    last_op.op = "validate" =>
        (last_op.ret # 0 <=>
            \/ last_op.plan.fail_at # 0
            \/ AverageTime > ai_context.config.max_inference_time_us)

\* every inference succeeded and the average was exactly the budget: passed
C25_Witness ==
    /\ last_op.op = "validate"
    /\ last_op.plan.fail_at = 0
    /\ AverageTime = ai_context.config.max_inference_time_us
    /\ last_op.ret = 0

(***************************************************************************)
(* SpecRecovery: ai_recovery_attempt called with the accelerator and the   *)
(* models brought up in part or in full, errors recorded or not, on a pool *)
(* in which a caller holds blocks                                          *)
(***************************************************************************)

\* what the context records of earlier errors when the recovery is called:
\* nothing, or as many errors as make ai_handle_inference_error call it
ErrorRecords ==
    {[consecutive_errors |-> 0, error_code |-> AI_ERROR_NONE],
     [consecutive_errors |-> RECOVERY_ERROR_LIMIT + 1, error_code |-> AI_ERROR_NPU_ERROR]}

\* rc = ai_recovery_attempt()
RecoveryCall ==
    /\ Running
    /\ pc = "up"
    /\ \E rin \in RecoveryInputs, e \in ErrorRecords :
       \E c \in {[ai_context EXCEPT !.consecutive_errors = e.consecutive_errors,
                                    !.error_code = e.error_code]} :
       \E r \in {ai_recovery_attempt(Heap, c, rin, now)} :
           /\ SetHeap(r.H)
           /\ ai_context' = r.ctx
           /\ last_op' = [op |-> "recovery", size |-> 0, ret |-> r.rc, before |-> ai_pool,
                          steps |-> r.steps, ctx |-> c]
    /\ pc' = "recovered"
    /\ UNCHANGED <<now, handles, calls, cycle, run, callers, system_context, image, combined_text>>

NextRecovery ==
    \/ \E size \in SelfTestFillSizes : MemAlloc(size)
    \/ \E i \in 1..MaxAllocs : NewestLive(i) /\ MemFree(i)
    \/ Bringup
    \/ RecoveryCall

SpecRecovery == InitMem /\ [][NextRecovery]_vars

\* the error counters are as the reset of step 4 leaves them
CountersReset ==
    /\ ai_context.consecutive_errors = 0
    /\ ai_context.error_code = AI_ERROR_NONE
    /\ ai_context.recovery_needed = 0

\* C26: ai_recovery_attempt runs the power cycle, the accelerator
\* re-initialisation, the model reload, the reset of the error counters and
\* the self-test in this order; it returns 0 only if every step succeeded,
\* and then the counters are reset; when a step fails it returns
\* AI_ERROR_RECOVERY_FAILED and the later steps have not run.
C26_RecoveryOrder ==
    last_op.op = "recovery" =>
        LET steps == last_op.steps
            last  == Len(steps)
        IN  /\ last \in 2..Len(RecoverySteps)
            /\ \A i \in 1..(last - 1) : steps[i] = 0
            /\ last_op.ret = 0 <=> (last = Len(RecoverySteps) /\ steps[last] = 0)
            /\ last_op.ret = 0 => CountersReset
            /\ last_op.ret # 0 =>
                  /\ last_op.ret = AI_ERROR_RECOVERY_FAILED
                  /\ steps[last] # 0
            \* the reload has not run when the re-initialisation failed
            /\ last < 3 => ai_context.loaded = last_op.ctx.loaded
            \* the counters are reset exactly when the reload succeeded
            /\ last < 4 =>
                  /\ ai_context.consecutive_errors = last_op.ctx.consecutive_errors
                  /\ ai_context.error_code = last_op.ctx.error_code
                  /\ ai_context.recovery_needed = 1
            /\ last >= 4 => CountersReset
            \* the self-test has not run when an earlier step failed
            /\ last < 5 => ai_pool = last_op.before

\* the recovery was called after errors, got as far as the self-test, and
\* the self-test failed for want of memory
C26_Witness ==
    /\ last_op.op = "recovery"
    /\ last_op.ctx.consecutive_errors > 0
    /\ Len(last_op.steps) = 5
    /\ last_op.steps[5] = -3
    /\ last_op.ret = AI_ERROR_RECOVERY_FAILED

(***************************************************************************)
(* SpecLog: the error log of the monitor, written by the inference task's  *)
(* error reports and read back                                             *)
(***************************************************************************)

\* how many entries a reader asks for
ReadSizes == {1, ERROR_LOG_SIZE}

\* system_log_error(ERROR_SEVERITY_ERROR, TASK_ID_AI_TASK, error_code, ..,
\* context_data) as ai_handle_inference_error calls it; the context value
\* is the number of the call, which tells the entries apart
LogError ==
    /\ Running
    /\ system_context.logged < MaxLogged
    /\ \E S \in {system_log_error(system_context,
                    [timestamp |-> now, task_id |-> TASK_ID_AI_TASK, severity |-> "ERROR",
                     error_code |-> AI_ERROR_NPU_ERROR,
                     context_data |-> system_context.logged + 1])} :
           system_context' = [S EXCEPT !.logged = @ + 1]
    /\ UNCHANGED <<memVars, now, histVars, pc, ai_context, cycle, run, callers, image, combined_text>>

\* n = system_get_error_log(entries, max_entries)
GetErrorLog ==
    /\ Running
    /\ \E max_entries \in ReadSizes :
           system_context' =
               [system_context EXCEPT !.read = system_get_error_log(system_context, max_entries)]
    /\ UNCHANGED <<memVars, now, histVars, pc, ai_context, cycle, run, callers, image, combined_text>>

NextLog ==
    \/ LogError
    \/ GetErrorLog

SpecLog == InitMem /\ [][NextLog]_vars

\* everything the log holds, oldest first
Held == system_get_error_log(system_context, ERROR_LOG_SIZE)

\* C27: after n calls of system_log_error the log holds exactly the
\* min(n, ERROR_LOG_SIZE) most recent entries, in the order they were
\* logged: a call on a full log evicts the oldest entry.
C27_LogKeepsMostRecent ==
    LET n == system_context.logged
        m == IF n < ERROR_LOG_SIZE THEN n ELSE ERROR_LOG_SIZE
    IN  /\ Len(Held) = m
        /\ \A k \in 1..m : Held[k].context_data = n - m + k

\* more entries were logged than the log holds, and the oldest are gone
C27_Witness ==
    /\ system_context.logged = ERROR_LOG_SIZE + 2
    /\ Len(Held) = ERROR_LOG_SIZE
    /\ Held[1].context_data = 3

(***************************************************************************)
(* SpecImage: a frame is captured and ocr_preprocess_image computes one    *)
(* pixel of the recogniser's input from it                                 *)
(***************************************************************************)

Pack(r, g, b) == r * 2 ^ 11 + g * 2 ^ 5 + b

\* the pixels a frame is made of: black, white, each channel alone at its
\* maximum, and each channel at 1
Pixels == {Pack(0, 0, 0), Pack(31, 63, 31), Pack(31, 0, 0), Pack(0, 63, 0),
           Pack(0, 0, 31), Pack(1, 1, 1)}

\* the destination pixels looked at: the corners of the output
Corners == {0, OCR_INPUT_WIDTH - 1} \X {0, OCR_INPUT_HEIGHT - 1}

\* the capture task hands over a frame: the words under one destination
\* pixel are kept
CaptureFrame ==
    /\ Running
    /\ image = NoImage
    /\ \E c \in Corners, p \in [1..4 -> Pixels] :
           image' = [x |-> c[1], y |-> c[2],
                     src |-> [i \in {SourceIndices(c[1], c[2])[k] : k \in 1..4} |->
                                 p[CHOOSE k \in 1..4 : SourceIndices(c[1], c[2])[k] = i]],
                     dst |-> <<>>]
    /\ UNCHANGED <<memVars, now, histVars, pc, ai_context, cycle, run, callers,
                   system_context, combined_text>>

\* ocr_preprocess_image(frame, output_buffer)
PreprocessCall ==
    /\ Running
    /\ image.src # <<>>
    /\ image.dst = <<>>
    /\ \E r \in {ocr_preprocess_image(image.src, image.x, image.y)} :
           image' = [image EXCEPT !.dst = (r.at :> r.pixel)]
    /\ UNCHANGED <<memVars, now, histVars, pc, ai_context, cycle, run, callers,
                   system_context, combined_text>>

NextImage ==
    \/ CaptureFrame
    \/ PreprocessCall

SpecImage == InitMem /\ [][NextImage]_vars

\* the channels of a pixel
Red(p) == p \div 2 ^ 11
Green(p) == (p \div 2 ^ 5) % 64
Blue(p) == p % 32

\* the source pixel at position (dx, dy) of the 2x2 block under destination
\* pixel (x, y)
BlockAt(dx, dy) == image.src[(2 * image.y + dy) * CAMERA_WIDTH + 2 * image.x + dx]

\* the destination pixel written
Written == image.dst[image.y * OCR_INPUT_WIDTH + image.x]

\* C28: every destination pixel of ocr_preprocess_image is, channel by
\* channel, the mean (rounded down) of the 2x2 source block it covers, with
\* no carry from one channel into another; a block of one colour gives that
\* colour.
C28_ChannelMeans ==
    image.dst # <<>> =>
        /\ DOMAIN image.dst = {image.y * OCR_INPUT_WIDTH + image.x}
        /\ Written \in 0..(2 ^ 16 - 1)
        /\ Red(Written) =
              (Red(BlockAt(0, 0)) + Red(BlockAt(1, 0)) + Red(BlockAt(0, 1))
                  + Red(BlockAt(1, 1))) \div 4
        /\ Green(Written) =
              (Green(BlockAt(0, 0)) + Green(BlockAt(1, 0)) + Green(BlockAt(0, 1))
                  + Green(BlockAt(1, 1))) \div 4
        /\ Blue(Written) =
              (Blue(BlockAt(0, 0)) + Blue(BlockAt(1, 0)) + Blue(BlockAt(0, 1))
                  + Blue(BlockAt(1, 1))) \div 4
        /\ \A c \in Pixels :
               (\A dx \in {0, 1}, dy \in {0, 1} : BlockAt(dx, dy) = c) => Written = c

\* a block whose blue and green sums are not multiples of 4 and whose
\* pixels differ in every channel was averaged
C28_Witness ==
    /\ image.dst # <<>>
    /\ BlockAt(0, 0) = Pack(31, 63, 31)
    /\ BlockAt(1, 0) = Pack(1, 1, 1)
    /\ BlockAt(0, 1) = Pack(0, 0, 31)
    /\ BlockAt(1, 1) = Pack(0, 63, 0)
    /\ Written = Pack(8, 31, 15)

(***************************************************************************)
(* Claims about what ai_memory_check_leaks leaves alone (SpecMemAge)       *)
(***************************************************************************)

\* C29: ai_memory_check_leaks frees nothing: the allocated list, the tag of
\* every block, allocated_size, peak_usage, allocation_count and free_count
\* are as before the call, and leak_count has grown by the count returned.
C29_CheckOnlyCounts ==
    last_op.op = "check" =>
        /\ allocated_blocks = last_op.head
        /\ pool_mem = last_op.mem
        /\ memory_mutex = 0
        /\ ai_pool = [last_op.before EXCEPT !.leak_count = (@ + last_op.ret) % U32]

\* a check counted a block that is still on the list afterwards
C29_Witness ==
    /\ last_op.op = "check"
    /\ last_op.ret > 0
    /\ allocated_blocks # NULL
    /\ ai_pool.leak_count = last_op.before.leak_count + last_op.ret

(***************************************************************************)
(* Claims about the configuration of the tasks (Spec)                      *)
(***************************************************************************)

\* the five tasks main() creates, in the order the pipeline names them
PipelineTasks == <<"capture", "inference", "synthesis", "actuation", "monitor">>

\* the priority each task is created with: the macro of its own header
\* where the header has one (ai_task.h, audio_task.h, system_task.h), else
\* the one utron_config.h gives its kind
ConfiguredPriority ==
    [capture   |-> TASK_PRIORITY_CAMERA,
     inference |-> AI_TASK_PRIORITY,
     synthesis |-> AUDIO_TASK_PRIORITY,
     actuation |-> TASK_PRIORITY_OUTPUT,
     monitor   |-> SYSTEM_TASK_PRIORITY]

\* C30: once the tasks are created, capture, inference, synthesis, actuation
\* and monitor are in strictly falling order of priority (a smaller number
\* is a higher priority): no two of them share a level.
C30_StrictPriorityOrder ==
    pc # "boot" =>
        \A i \in 1..(Len(PipelineTasks) - 1) :
            ConfiguredPriority[PipelineTasks[i]] < ConfiguredPriority[PipelineTasks[i + 1]]

(***************************************************************************)
(* SpecResult: the task of Spec and a consumer of its result               *)
(***************************************************************************)
\* ai_is_result_ready(), ai_task.c lines 623-627
ai_is_result_ready(ctx) ==
    IF ctx.current_state = "READY" /\ ctx.stats.total_inferences > 0 THEN 1 ELSE 0

\* what a read of sizeof(ocr_result_t) bytes at address 0 can deliver when it
\* does not fault: the bytes that the build has placed there, which are not
\* a result of the task
StrayResults ==
    {NoResult,
     [confidence |-> [num |-> 1, den |-> 1], bbox_count |-> 1, regions |-> 1,
      timestamp |-> 0]}

\* ai_get_result(result), ai_task.c lines 629-638, for a caller whose object
\* holds `mine' (given = FALSE: the caller passes NULL).  The copy reads
\* through ai_context.result_buffer; through a null pointer the read is
\* undefined: it faults or delivers stray bytes.  Yields the possible
\* outcomes.
ai_get_result(ctx, given, mine) ==
    IF ~given
    THEN {[rc |-> AI_ERROR_INPUT_INVALID, trap |-> "none", result |-> mine]}
    ELSE IF ctx.result_buffer = NULL
         THEN {[rc |-> 0, trap |-> "wild", result |-> mine]} \cup
              {[rc |-> 0, trap |-> "none", result |-> g] : g \in StrayResults}
         ELSE {[rc |-> 0, trap |-> "none", result |-> ctx.result_buffer]}

\* the result that the last cycle produced (the fields that cycle records)
Produced == [confidence |-> cycle.confidence, bbox_count |-> cycle.detected,
             regions |-> cycle.regions]

\* a consumer (the synthesis task) asks whether a result is ready and
\* fetches it while the inference task is between two cycles; the run is
\* followed up to this call
ResultQuery ==
    /\ Running
    /\ pc \in {"loop", "monitor"}
    /\ \E given \in BOOLEAN :
       \E o \in ai_get_result(ai_context, given, NoResult) :
         /\ last_op' = [op |-> "get_result", size |-> IF given THEN 1 ELSE 0,
                        ret |-> o.rc, before |-> ZeroPool,
                        ready |-> ai_is_result_ready(ai_context),
                        result |-> o.result,
                        processed |-> cycle.n > 0 /\ cycle.rc = 0,
                        produced |-> Produced]
         /\ trap' = o.trap
    /\ pc' = "queried"
    /\ UNCHANGED <<ai_pool, allocated_blocks, memory_mutex, pool_mem, now, handles,
                   calls, ai_context, cycle, run, callers, system_context, image, combined_text>>

NextResult == Next \/ ResultQuery

SpecResult == Init /\ [][NextResult]_vars

\* C31: after the inference task has processed a frame, ai_is_result_ready()
\* returns 1 and ai_get_result(&r) returns 0 with r equal to the result that
\* the task produced last; ai_get_result(NULL) returns AI_ERROR_INPUT_INVALID
\* and changes nothing.
C31_LatestResultRetrievable ==
    (last_op.op = "get_result" /\ last_op.processed) =>
        /\ last_op.ready = 1
        /\ last_op.size = 1 =>
              /\ trap = "none"
              /\ last_op.ret = 0
              /\ last_op.result.confidence = last_op.produced.confidence
              /\ last_op.result.regions = last_op.produced.regions
        /\ last_op.size = 0 =>
              /\ last_op.ret = AI_ERROR_INPUT_INVALID
              /\ last_op.result = NoResult
              /\ trap = "none"

(***************************************************************************)
(* C32: the error branch of the cycle                                      *)
(***************************************************************************)
\* the task has just finished a cycle in which ocr_process_frame returned
\* an error
ErrorCycleDone == pc = "monitor" /\ cycle.n > 0 /\ cycle.rc # 0

\* what every error cycle does: nothing goes downstream, one entry of
\* severity ERROR is logged, the failure is counted once, the frame is given
\* back, the state is READY again
ErrorCycleSkipsFrame ==
    /\ cycle.forwarded = 0
    /\ cycle.sent = {}
    /\ Len(cycle.logged) = 1
    /\ cycle.logged[1].severity = "ERROR"
    /\ cycle.logged[1].code = cycle.rc
    /\ ai_context.stats.failed_inferences =
           cycle.before.stats.failed_inferences + 1
    /\ run.held <= run.idle
    /\ ai_context.current_state = "READY"

\* C32 as claimed: when ocr_process_frame returns non-zero in the loop the
\* frame is skipped (nothing forwarded, exactly one error-severity entry
\* logged, the frame released, the state READY and not ERROR) and
\* consecutive_errors and failed_inferences each increase by exactly 1.
C32_ErrorCycleCountsOnce ==
    ErrorCycleDone =>
        /\ ErrorCycleSkipsFrame
        /\ ai_context.consecutive_errors = cycle.before.consecutive_errors + 1

\* C32 as the code has it: the frame is skipped as claimed and
\* failed_inferences increases by exactly 1; consecutive_errors increases by
\* exactly 1 unless the increase takes it above 5: then a recovery attempt
\* runs within the cycle, and consecutive_errors is 0 when the attempt got as
\* far as its counter reset and one more than before when it did not.
C32_ErrorCycleSkipsFrame ==
    ErrorCycleDone =>
        /\ ErrorCycleSkipsFrame
        /\ cycle.recov = (IF RecoveryDue(cycle.before.consecutive_errors + 1)
                          THEN 1 ELSE 0)
        /\ cycle.recov = 0 =>
              ai_context.consecutive_errors = cycle.before.consecutive_errors + 1
        /\ cycle.recov = 1 =>
              ai_context.consecutive_errors \in
                  {0, cycle.before.consecutive_errors + 1}

C32_Witness ==
    /\ ErrorCycleDone
    /\ cycle.recov = 1
    /\ ai_context.consecutive_errors = 0
    /\ ai_context.stats.failed_inferences > 0

(***************************************************************************)
(* C33: initialisation succeeds when every step of it does                 *)
(***************************************************************************)
\* ai_init has run on an accelerator that initialised, with both model
\* loads successful and no validation failure
InitStepsFine ==
    /\ last_op.op = "ai_init"
    /\ last_op.npu = "ok"
    /\ last_op.det_ok
    /\ last_op.rec_ok
    /\ Len(last_op.steps) = 4 => last_op.steps[4] = 0

\* C33: from the context that create_ai_task has zeroed, when the
\* accelerator initialises, the detection and the recognition model load and
\* the validation pass succeeds within its budget, ai_init returns 0 and
\* ai_task_entry reaches AI_STATE_READY.
C33_InitSucceedsWhenStepsDo ==
    InitStepsFine =>
        /\ last_op.ret = 0
        /\ pc # "returned"
        /\ ai_context.current_state # "ERROR"

(***************************************************************************)
(* C34: the inference counters add up                                      *)
(***************************************************************************)
\* C34: between two cycles of the task, stats.total_inferences equals
\* successful_inferences + failed_inferences (counted since the last
\* ai_stats_reset), whatever cycles have run: successful ones, ones that
\* recognised nothing, and ones that returned an error.
C34_InferenceCountsAddUp ==
    pc \in {"loop", "monitor"} =>
        ai_context.stats.total_inferences =
            ai_context.stats.successful_inferences +
            ai_context.stats.failed_inferences

(***************************************************************************)
(* SpecText: the recognition loop of ocr_process_frame joining the texts   *)
(* of accepted regions                                                     *)
(***************************************************************************)
\* the lengths a recognised text can have in region_text
FragmentLengths == 0..(REGION_TEXT_SIZE - 1)

\* one accepted region is appended (an iteration of the loop of line 381);
\* a write behind the buffer is undefined: the task goes on with its
\* neighbours on the stack overwritten, or faults
AppendRegion ==
    /\ Running
    /\ combined_text.char_count = -1
    /\ combined_text.i < MAX_TEXT_REGIONS
    /\ \E src_len \in FragmentLengths :
       \E t \in {AppendRegionText(combined_text, src_len)} :
         /\ combined_text' = t
         /\ trap' \in IF t.high > OCR_MAX_TEXT_LENGTH THEN {"none", "wild"} ELSE {"none"}
    /\ UNCHANGED <<ai_pool, allocated_blocks, memory_mutex, pool_mem, now, histVars,
                   pc, ai_context, cycle, run, callers, system_context, image>>

\* the loop has ended with at least one accepted region: step 4 copies the
\* text to the result
PostProcess ==
    /\ Running
    /\ combined_text.char_count = -1
    /\ combined_text.i > 0
    /\ combined_text' = CopyText(combined_text)
    /\ UNCHANGED <<memVars, now, histVars, pc, ai_context, cycle, run, callers,
                   system_context, image>>

NextText ==
    \/ AppendRegion
    \/ PostProcess

SpecText == InitMem /\ [][NextText]_vars

\* C35: for any list of up to 16 accepted fragments of up to 63 characters
\* each, the joined text never exceeds OCR_MAX_TEXT_LENGTH - 1 = 255
\* characters plus its terminator: nothing is written behind the end of the
\* combined-text buffer, and what does not fit is cut off.
C35_TextFitsBuffer ==
    /\ combined_text.high <= OCR_MAX_TEXT_LENGTH
    /\ combined_text.len <= OCR_MAX_TEXT_LENGTH - 1
    /\ combined_text.char_count <= OCR_MAX_TEXT_LENGTH - 1
    /\ trap = "none"

(***************************************************************************)
(* C36: the size arithmetic of ai_memory_alloc                             *)
(***************************************************************************)
\* C36: for every request size of 32 bits, those within 8 + the header size
\* of 2^32 included, the round-up and the capacity check of ai_memory_alloc
\* give what they give in unbounded arithmetic: a request that is too large
\* fails, and every successful allocation records a block size that is at
\* least the size asked for.
C36_SizeArithmeticExact ==
    last_op.op = "alloc" =>
        /\ last_op.before.allocated_size + MathAlign8(last_op.size) + HeaderSize
               > AI_MEMORY_POOL_SIZE
           => last_op.ret = NULL
        /\ last_op.ret # NULL =>
               Field(pool_mem, last_op.ret - HeaderSize, F_SIZE) >= last_op.size

(***************************************************************************)
(* C37: the high-water mark and the reported statistics                    *)
(***************************************************************************)
\* no task is inside a call of the allocator
NoCallInProgress == \A t \in Tasks : callers[t].pc \in {"idle", "sleep"}

\* C37: after any sequence of allocator operations peak_usage is at least
\* allocated_size, and ai_memory_get_stats reports used_bytes and free_bytes
\* that add up to AI_MEMORY_POOL_SIZE and a peak_usage that is at least
\* used_bytes.
C37_PeakAndStatsConsistent ==
    NoCallInProgress =>
        /\ ai_pool.peak_usage >= ai_pool.allocated_size
        /\ \A s \in {ai_memory_get_stats(Heap)} :
              /\ s.used_bytes + s.free_bytes = AI_MEMORY_POOL_SIZE
              /\ s.peak_usage >= s.used_bytes

(***************************************************************************)
(* C38: the allocated-block list stays a list                              *)
(***************************************************************************)
\* C38: after any sequence of ai_memory_alloc calls and of ai_memory_free
\* calls on the pointers they returned, in any order of the frees, the
\* allocated-block list is finite and acyclic, and so the walks of
\* ai_memory_free and ai_memory_check_leaks along it come to an end.
C38_ListAcyclic ==
    calls.other = 0 =>
        /\ trap # "hang"
        /\ Running => ListLen(pool_mem, allocated_blocks, {}) >= 0
====
